---- MODULE Spec2Model ----
(***************************************************************************)
(* The OCR microservice (src/ocr-service): two engine adapters              *)
(* (PaddleOCREngine, TesseractEngine), the orchestrator OCREngine with its  *)
(* primary/fallback failover, the validating OCRService and the router of   *)
(* POST /ocr/extract and GET /ocr/status.                                   *)
(*                                                                         *)
(* Representation.  A Python str that the code inspects character by        *)
(* character (OCR text, a filename) is a sequence of one-character strings; *)
(* a str that is only passed on (an exception message, an engine name) is a *)
(* TLA+ string.  A dict is a function on its keys, {} is <<>>.  A call      *)
(* either returns a value or raises: Return(v) / Raise(e).  A float is the  *)
(* exact fraction [num, den].  The backend libraries (PIL, PaddleOCR,       *)
(* pytesseract) are the environment: what they do with an image is part of  *)
(* the image, so that the same bytes always give the same backend answer.   *)
(***************************************************************************)
EXTENDS Integers, Sequences, FiniteSets, TLC

VARIABLES
    primary_engine,   \* OCREngine.primary_engine: the engine object [cls, available]
    fallback_engine,  \* OCREngine.fallback_engine
    pc,               \* position of the request being served
    file,             \* the UploadFile of the request: [filename, content]
    language,         \* the language query parameter
    calls,            \* engine operations invoked for this request, in order, with what they returned
    result,           \* local `result` / return value of extract_text_from_image
    response,         \* what the router hands back to the client
    backend,          \* the environment: whether each OCR library can be run at present
    status,           \* the last two responses of GET /ocr/status, oldest first
    requests,         \* the requests in flight on the event loop and those answered, by id
    steps,            \* what extract_text_from_file has done for this request so far, in order
    manager_module,   \* which ConnectorManager is in use: that of pipeline/connectors or of src/python/connectors
    config_file,      \* the environment: what opening and parsing the connectors' YAML file gives
    _config,          \* the loaded configuration cached by _load_config / config_manager.load_config
    _connectors,      \* ConnectorManager._connectors: connector name -> connector instance
    instances,        \* the connector objects created so far; an instance is identified by its index
    manager_call,     \* the last call made on the ConnectorManager and how it ended
    workflow,         \* the Workflow object: [batch]
    elements,         \* the argument of Workflow.chunk: [kind, items]
    frame,            \* the local variables of the running chunk generator
    yielded           \* the batches the chunk generator has yielded so far, in order

vars == <<primary_engine, fallback_engine, pc, file, language, calls, result, response,
          backend, status, requests, steps,
          manager_module, config_file, _config, _connectors, instances, manager_call,
          workflow, elements, frame, yielded>>

\* the state of the OCR service
ocr_vars == <<primary_engine, fallback_engine, pc, file, language, calls, result, response,
              backend, status, requests, steps>>

\* the state of a ConnectorManager and of its environment
manager_vars == <<manager_module, config_file, _config, _connectors, instances, manager_call>>

\* the state of a run of Workflow.chunk
workflow_vars == <<workflow, elements, frame, yielded>>

----------------------------------------------------------------------------
(* Bounds of the model *)

\* longest text pytesseract.image_to_string returns, in characters
MaxLen == 1
\* most lines PaddleOCR detects on one page
MaxLines == 1
\* most requests in flight at once
MaxRequests == 2

----------------------------------------------------------------------------
(* Python values *)

Return(v) == [raised |-> FALSE, value |-> v]
Raise(e) == [raised |-> TRUE, exc |-> e]

\* str(e) of an exception
str(e) == e.message

\* the value None where a str is expected
None == <<"None">>
\* no value yet (an unbound local)
Unset == [unset |-> TRUE]

SeqsUpTo(S, n) == UNION {[1..k -> S] : k \in 0..n}

RECURSIVE SumSeq(_)
SumSeq(s) == IF s = <<>> THEN 0 ELSE Head(s) + SumSeq(Tail(s))

\* round(num / den) to the nearest integer, ties to even, for num >= 0, den > 0
RoundDiv(num, den) ==
    LET q == num \div den
        r == num % den
    IN  IF 2 * r > den \/ (2 * r = den /\ q % 2 = 1) THEN q + 1 ELSE q

\* characters str.strip() and str.split() treat as white space
Whitespace == {" ", "\n"}

RECURSIVE lstrip(_)
lstrip(s) == IF s # <<>> /\ Head(s) \in Whitespace THEN lstrip(Tail(s)) ELSE s

RECURSIVE rstrip(_)
rstrip(s) == IF s # <<>> /\ s[Len(s)] \in Whitespace THEN rstrip(SubSeq(s, 1, Len(s) - 1)) ELSE s

\* str.strip()
strip(s) == rstrip(lstrip(s))

\* len(s.split()): the number of maximal runs of non-white-space characters
split_len(s) ==
    Cardinality({i \in 1..Len(s) : s[i] \notin Whitespace /\ (i = 1 \/ s[i - 1] \in Whitespace)})

\* sep.join(parts)
RECURSIVE join(_, _)
join(sep, parts) ==
    IF parts = <<>> THEN <<>>
    ELSE IF Len(parts) = 1 THEN Head(parts)
    ELSE Head(parts) \o sep \o join(sep, Tail(parts))

----------------------------------------------------------------------------
(* The environment: uploads and what the backend libraries do with them *)

Chars == {"a", " "}

\* the exceptions the libraries raise
PILError == [type |-> "UnidentifiedImageError", message |-> "cannot identify image file"]
PaddleError == [type |-> "ValueError", message |-> "cannot decode image array"]
TesseractError == [type |-> "TesseractError", message |-> "tesseract failed"]
TesseractNotFoundError ==
    [type |-> "TesseractNotFoundError", message |-> "tesseract is not installed or it's not in your PATH"]

\* a detection PaddleOCR reports without a (text, confidence) pair: `line` is None
\* or has a single element
NoLine == [skipped |-> TRUE]

\* confidences PaddleOCR reports, in thousandths (875 is 0.875)
PaddleConfidences == {875, 1000}

\* the entries of result[0]: line[1][0] is the text, line[1][1] the confidence
PaddleLines == {NoLine} \cup {[text |-> <<c>>, confidence |-> k] : c \in Chars, k \in PaddleConfidences}

\* what self.ocr.ocr(image_array, cls=True) does: raises, or returns the page's
\* lines (no line stands for a result that is None, empty or [None])
PaddleOutcomes == {Raise(PaddleError)} \cup {Return(l) : l \in SeqsUpTo(PaddleLines, MaxLines)}

\* the 'conf' column of pytesseract.image_to_data, one entry per row: -1 on rows
\* that are no word, 0 to 100 on a word
TesseractConfs == {<<>>, <<-1, 0>>, <<-1, 88>>, <<87, 88>>, <<0, 88>>}

\* what pytesseract does: image_to_string raises (image_to_data is then never
\* reached), or returns the text and image_to_data raises or returns its rows
TesseractOutcomes ==
    {[image_to_string |-> Raise(TesseractError), image_to_data |-> Raise(TesseractError)]}
    \cup {[image_to_string |-> Return(t), image_to_data |-> d] :
            t \in SeqsUpTo(Chars, MaxLen),
            d \in {Raise(TesseractError)} \cup {Return([conf |-> c]) : c \in TesseractConfs}}

\* width, height and mode of a decoded image
ImageInfo == [width |-> 2, height |-> 1, mode |-> "RGB"]

\* image bytes: `open` is what PIL's Image.open does with them, `paddle` and
\* `tesseract` what the two OCR libraries do with the decoded image
Images ==
    {[open |-> Raise(PILError), paddle |-> Raise(PILError),
      tesseract |-> [image_to_string |-> Raise(PILError), image_to_data |-> Raise(PILError)]]}
    \cup {[open |-> Return(ImageInfo), paddle |-> p, tesseract |-> t] :
            p \in PaddleOutcomes, t \in TesseractOutcomes}

Languages == {"en", "tamil"}

\* whether PaddleOCR can be loaded and run, and whether the tesseract binary is
\* on the PATH
Backends == [paddleocr : BOOLEAN, tesseract : BOOLEAN]

\* what the libraries do with an image at present: a library that cannot be
\* run raises whatever the image
with_backend(image_data, b) ==
    [image_data EXCEPT
        !.paddle = IF b.paddleocr THEN @ ELSE Raise(PaddleError),
        !.tesseract = IF b.tesseract THEN @
                      ELSE [image_to_string |-> Raise(TesseractNotFoundError),
                            image_to_data |-> Raise(TesseractNotFoundError)]]

----------------------------------------------------------------------------
(* service/paddleocr_engine.py *)

\* faulty variant: available is set before PaddleOCR(...) is tried
PaddleOCREngine_init_available_first(backend_raises) ==
    IF backend_raises THEN [cls |-> "PaddleOCREngine", available |-> TRUE]
    ELSE [cls |-> "PaddleOCREngine", ocr |-> "PaddleOCR", available |-> TRUE]

\* PaddleOCREngine.__init__: a PaddleOCR(...) that raises leaves available = False
\* and no self.ocr
PaddleOCREngine_init(backend_raises) ==
    IF backend_raises THEN [cls |-> "PaddleOCREngine", available |-> FALSE]
    ELSE [cls |-> "PaddleOCREngine", ocr |-> "PaddleOCR", available |-> TRUE]

PaddleOCREngine_is_available(self) == self.available

PaddleOCREngine_get_supported_languages(self) ==
    <<"en", "ch", "japan", "korean", "fr", "german", "spanish", "arabic", "tamil", "hindi">>

\* avg_confidence: sum(confidences) / len(confidences) if confidences else 0.0
PaddleOCREngine_avg_confidence(confidences) ==
    IF confidences # <<>>
    THEN [num |-> SumSeq(confidences), den |-> 1000 * Len(confidences)]
    ELSE [num |-> 0, den |-> 1]

\* round(x * 100, 2), as a number of hundredths over 100
round_percent(x) == [num |-> RoundDiv(x.num * 10000, x.den), den |-> 100]

\* the body of extract_text's try block
PaddleOCREngine_extract_text_try(self, image_data, filename, lang) ==
    IF ~PaddleOCREngine_is_available(self)
    THEN Return([success |-> FALSE, error |-> "PaddleOCR is not available",
                 text |-> <<>>, metadata |-> <<>>])
    ELSE IF image_data.open.raised THEN Raise(image_data.open.exc)
    ELSE IF image_data.paddle.raised THEN Raise(image_data.paddle.exc)
    ELSE
        LET image == image_data.open.value
            lines == SelectSeq(image_data.paddle.value, LAMBDA line : line # NoLine)
            extracted_texts == [i \in 1..Len(lines) |-> lines[i].text]
            confidences == [i \in 1..Len(lines) |-> lines[i].confidence]
            full_text == join(<<"\n">>, extracted_texts)
            avg_confidence == PaddleOCREngine_avg_confidence(confidences)
        IN  Return([success |-> TRUE,
                    text |-> strip(full_text),
                    metadata |-> [filename |-> filename,
                                  engine |-> "paddleocr",
                                  image_size |-> [width |-> image.width, height |-> image.height,
                                                  mode |-> image.mode],
                                  char_count |-> Len(full_text),
                                  word_count |-> IF strip(full_text) # <<>> THEN split_len(full_text) ELSE 0,
                                  confidence |-> round_percent(avg_confidence),
                                  detected_lines |-> Len(extracted_texts),
                                  language |-> lang]])

\* faulty variant: no except clause
PaddleOCREngine_extract_text_uncaught(self, image_data, filename, lang) ==
    PaddleOCREngine_extract_text_try(self, image_data, filename, lang)

\* PaddleOCREngine.extract_text: `except Exception as e` turns whatever the try
\* block raised into a failure result
PaddleOCREngine_extract_text(self, image_data, filename, lang) ==
    LET r == PaddleOCREngine_extract_text_try(self, image_data, filename, lang)
    IN  IF r.raised
        THEN Return([success |-> FALSE, error |-> str(r.exc), text |-> <<>>,
                     metadata |-> [engine |-> "paddleocr"]])
        ELSE r

----------------------------------------------------------------------------
(* service/tesseract_engine.py *)

\* TesseractEngine.__init__: a get_tesseract_version() that raises leaves
\* available = False
TesseractEngine_init(backend_raises) ==
    [cls |-> "TesseractEngine", available |-> ~backend_raises]

TesseractEngine_is_available(self) == self.available

TesseractEngine_get_supported_languages(self) ==
    <<"eng", "tam", "hin", "fra", "deu", "spa", "ara", "jpn", "kor", "chi_sim", "chi_tra">>

\* TesseractEngine._calculate_average_confidence
calculate_average_confidence(ocr_data) ==
    LET confidences == SelectSeq(ocr_data.conf, LAMBDA conf : conf > 0)
    IN  IF confidences # <<>>
        THEN [num |-> SumSeq(confidences), den |-> Len(confidences)]
        ELSE [num |-> 0, den |-> 1]

\* the language handed to pytesseract; what pytesseract answers is part of the
\* image and is not made to depend on it
lang_config(lang) == IF lang # "en" THEN lang ELSE "eng"

\* the inner try: a failing image_to_data gives avg_confidence = 0.0
TesseractEngine_avg_confidence(image_data) ==
    IF image_data.tesseract.image_to_data.raised
    THEN [num |-> 0, den |-> 1]
    ELSE calculate_average_confidence(image_data.tesseract.image_to_data.value)

\* the body of extract_text's try block
TesseractEngine_extract_text_try(self, image_data, filename, lang) ==
    IF ~TesseractEngine_is_available(self)
    THEN Return([success |-> FALSE, error |-> "Tesseract is not installed or not in PATH",
                 text |-> <<>>, metadata |-> <<>>])
    ELSE IF image_data.open.raised THEN Raise(image_data.open.exc)
    ELSE IF image_data.tesseract.image_to_string.raised
    THEN Raise(image_data.tesseract.image_to_string.exc)
    ELSE
        LET image == image_data.open.value
            text_content == image_data.tesseract.image_to_string.value
            avg_confidence == TesseractEngine_avg_confidence(image_data)
            word_count == split_len(text_content)
            char_count == Len(text_content)
        IN  Return([success |-> TRUE,
                    text |-> strip(text_content),
                    metadata |-> [filename |-> filename,
                                  engine |-> "tesseract",
                                  image_size |-> [width |-> image.width, height |-> image.height,
                                                  mode |-> image.mode],
                                  char_count |-> char_count,
                                  word_count |-> word_count,
                                  confidence |-> avg_confidence,
                                  language |-> lang]])

\* faulty variant: no except clause
TesseractEngine_extract_text_uncaught(self, image_data, filename, lang) ==
    TesseractEngine_extract_text_try(self, image_data, filename, lang)

\* faulty variant: the text read so far is kept in the failure result
TesseractEngine_extract_text_keeps_text(self, image_data, filename, lang) ==
    LET r == TesseractEngine_extract_text_try(self, image_data, filename, lang)
    IN  IF r.raised
        THEN Return([success |-> FALSE, error |-> str(r.exc), text |-> <<"a">>,
                     metadata |-> [engine |-> "tesseract"]])
        ELSE r

\* TesseractEngine.extract_text: `except Exception as e` turns whatever the try
\* block raised into a failure result
TesseractEngine_extract_text(self, image_data, filename, lang) ==
    LET r == TesseractEngine_extract_text_try(self, image_data, filename, lang)
    IN  IF r.raised
        THEN Return([success |-> FALSE, error |-> str(r.exc), text |-> <<>>,
                     metadata |-> [engine |-> "tesseract"]])
        ELSE r

----------------------------------------------------------------------------
(* service/ocr_strategy.py: the strategy's three operations, dispatched on the
   engine's class *)

\* OCREngineFactory.create_engine, for the two engine types OCRService asks for
create_engine(engine_type, backend_raises) ==
    IF engine_type = "paddleocr" THEN PaddleOCREngine_init(backend_raises)
    ELSE TesseractEngine_init(backend_raises)

is_available(self) ==
    IF self.cls = "PaddleOCREngine" THEN PaddleOCREngine_is_available(self)
    ELSE TesseractEngine_is_available(self)

extract_text(self, image_data, filename, lang) ==
    IF self.cls = "PaddleOCREngine"
    THEN PaddleOCREngine_extract_text(self, image_data, filename, lang)
    ELSE TesseractEngine_extract_text(self, image_data, filename, lang)

get_supported_languages(self) ==
    IF self.cls = "PaddleOCREngine" THEN PaddleOCREngine_get_supported_languages(self)
    ELSE TesseractEngine_get_supported_languages(self)

----------------------------------------------------------------------------
(* service/ocr_engine.py: OCREngine *)

\* self.primary_engine.__class__.__name__
class_name(self) == self.cls

\* faulty variant: the text is not looked at
primary_accepted_any_text(r) == r.success

\* faulty variant: the test of the text is inverted
primary_accepted_inverted(r) == r.success /\ strip(r.text) = <<>>

\* line 34: the primary's result is returned as it is
primary_accepted(r) == r.success /\ strip(r.text) # <<>>

\* faulty variant: the fallback's text is tested like the primary's
fallback_accepted_nonempty(r) == r.success /\ strip(r.text) # <<>>

\* faulty variant: whatever the fallback returns is returned
fallback_accepted_always(r) == TRUE

\* line 40: the fallback's result is returned
fallback_accepted(r) == r.success

\* faulty variant: the metadata is replaced instead of extended
fallback_result_replaced(r, primary) ==
    [r EXCEPT !.metadata = [fallback_used |-> TRUE, primary_engine |-> class_name(primary)]]

\* lines 41-44: the fallback's result with the fallback info added to its metadata
fallback_result(r, primary) ==
    [r EXCEPT !.metadata =
        ("fallback_used" :> TRUE) @@ ("primary_engine" :> class_name(primary)) @@ r.metadata]

\* faulty variant: the failure is flagged as a fallback result
both_failed_result_flagged(primary, fallback) ==
    [success |-> FALSE,
     error |-> "Both OCR engines failed or are unavailable",
     text |-> <<>>,
     metadata |-> [primary_engine |-> class_name(primary), fallback_engine |-> class_name(fallback),
                   fallback_used |-> TRUE]]

\* lines 46-55
both_failed_result(primary, fallback) ==
    [success |-> FALSE,
     error |-> "Both OCR engines failed or are unavailable",
     text |-> <<>>,
     metadata |-> [primary_engine |-> class_name(primary), fallback_engine |-> class_name(fallback)]]

\* extract_text_from_image, lines 19-55, as one call: what it returns or raises
extract_text_from_image(primary, fallback, image_data, filename, lang) ==
    LET p == extract_text(primary, image_data, filename, lang)
        f == extract_text(fallback, image_data, filename, lang)
    IN  IF is_available(primary) /\ p.raised THEN p
        ELSE IF is_available(primary) /\ primary_accepted(p.value) THEN p
        ELSE IF ~is_available(fallback) THEN Return(both_failed_result(primary, fallback))
        ELSE IF f.raised THEN f
        ELSE IF fallback_accepted(f.value) THEN Return(fallback_result(f.value, primary))
        ELSE Return(both_failed_result(primary, fallback))

\* faulty variant: the fallback is reported available only if the primary is
get_engine_status_shared(primary, fallback) ==
    [primary_engine |-> [name |-> class_name(primary),
                         available |-> is_available(primary),
                         supported_languages |-> get_supported_languages(primary)],
     fallback_engine |-> [name |-> class_name(fallback),
                          available |-> is_available(primary) /\ is_available(fallback),
                          supported_languages |-> get_supported_languages(fallback)]]

\* get_engine_status
get_engine_status(primary, fallback) ==
    [primary_engine |-> [name |-> class_name(primary),
                         available |-> is_available(primary),
                         supported_languages |-> get_supported_languages(primary)],
     fallback_engine |-> [name |-> class_name(fallback),
                          available |-> is_available(fallback),
                          supported_languages |-> get_supported_languages(fallback)]]

----------------------------------------------------------------------------
(* service/ocr_service.py: OCRService *)

max_file_size == 50 * 1024 * 1024

\* file names as sequences of characters
ext_jpg == <<".", "j", "p", "g">>
ext_jpeg == <<".", "j", "p", "e", "g">>
ext_png == <<".", "p", "n", "g">>
ext_bmp == <<".", "b", "m", "p">>
ext_tiff == <<".", "t", "i", "f", "f">>
ext_tif == <<".", "t", "i", "f">>
ext_pdf == <<".", "p", "d", "f">>

allowed_extensions == {ext_jpg, ext_jpeg, ext_png, ext_bmp, ext_tiff, ext_tif, ext_pdf}

UpperCase == <<"A", "B", "C", "D", "E", "F", "G", "H", "I", "J", "K", "L", "M",
               "N", "O", "P", "Q", "R", "S", "T", "U", "V", "W", "X", "Y", "Z">>
LowerCase == <<"a", "b", "c", "d", "e", "f", "g", "h", "i", "j", "k", "l", "m",
               "n", "o", "p", "q", "r", "s", "t", "u", "v", "w", "x", "y", "z">>

\* str.lower()
lower(s) ==
    [i \in 1..Len(s) |->
        IF \E k \in 1..26 : UpperCase[k] = s[i]
        THEN LowerCase[CHOOSE k \in 1..26 : UpperCase[k] = s[i]]
        ELSE s[i]]

LastIndex(p, c) ==
    IF \E i \in 1..Len(p) : p[i] = c
    THEN CHOOSE i \in 1..Len(p) : p[i] = c /\ \A j \in (i + 1)..Len(p) : p[j] # c
    ELSE 0

\* os.path.splitext(p)[1]: from the last dot of the last path component, unless
\* that component has only dots before it
splitext_ext(p) ==
    LET sepIndex == LastIndex(p, "/")
        dotIndex == LastIndex(p, ".")
    IN  IF dotIndex > sepIndex /\ \E i \in (sepIndex + 1)..(dotIndex - 1) : p[i] # "."
        THEN SubSeq(p, dotIndex, Len(p))
        ELSE <<>>

HTTPException(status_code, detail) ==
    [type |-> "HTTPException", status_code |-> status_code, detail |-> detail, message |-> detail]

TypeError == [type |-> "TypeError", message |-> "expected str, bytes or os.PathLike object, not NoneType"]

\* len(content)
len(content) == content.size

\* faulty variant: the size test is >= instead of >
validate_file_ge(f) ==
    LET content == f.content
        file_size == len(content)
    IN  IF file_size >= max_file_size
        THEN Raise(HTTPException(413, "File too large. Maximum size is "
                                       \o ToString(max_file_size \div (1024 * 1024)) \o "MB"))
        ELSE IF f.filename = None THEN Raise(TypeError)
        ELSE IF lower(splitext_ext(f.filename)) \notin allowed_extensions
        THEN Raise(HTTPException(400, "Unsupported file type. Allowed types: .jpg, .jpeg, .png, .bmp, .tiff, .tif, .pdf"))
        ELSE Return(content)

\* faulty variant: the extension is compared as it was written
validate_file_case_sensitive(f) ==
    LET content == f.content
        file_size == len(content)
    IN  IF file_size > max_file_size
        THEN Raise(HTTPException(413, "File too large. Maximum size is "
                                       \o ToString(max_file_size \div (1024 * 1024)) \o "MB"))
        ELSE IF f.filename = None THEN Raise(TypeError)
        ELSE IF splitext_ext(f.filename) \notin allowed_extensions
        THEN Raise(HTTPException(400, "Unsupported file type. Allowed types: .jpg, .jpeg, .png, .bmp, .tiff, .tif, .pdf"))
        ELSE Return(content)

\* extract_text_from_file, lines 29-46: read the upload, validate size and type;
\* returns the content to run OCR on
validate_file(f) ==
    LET content == f.content
        file_size == len(content)
    IN  IF file_size > max_file_size
        THEN Raise(HTTPException(413, "File too large. Maximum size is "
                                       \o ToString(max_file_size \div (1024 * 1024)) \o "MB"))
        ELSE IF f.filename = None THEN Raise(TypeError)
        ELSE IF lower(splitext_ext(f.filename)) \notin allowed_extensions
        THEN Raise(HTTPException(400, "Unsupported file type. Allowed types: .jpg, .jpeg, .png, .bmp, .tiff, .tif, .pdf"))
        ELSE Return(content)

\* faulty variant: result["success"] is not tested
service_result_unchecked(f, r) ==
    IF r.raised THEN r
    ELSE Return([filename |-> f.filename,
                 file_size |-> len(f.content),
                 extracted_text |-> r.value.text,
                 metadata |-> r.value.metadata])

\* faulty variant: the orchestrator's additions to the metadata are left out
service_result_engine_metadata(f, r) ==
    IF r.raised THEN r
    ELSE IF ~r.value.success
    THEN Raise(HTTPException(500, "OCR processing failed: " \o r.value.error))
    ELSE Return([filename |-> f.filename,
                 file_size |-> len(f.content),
                 extracted_text |-> r.value.text,
                 metadata |-> [k \in DOMAIN r.value.metadata \ {"fallback_used", "primary_engine"} |->
                                  r.value.metadata[k]]])

\* extract_text_from_file, lines 29-46: what it does with the upload before it
\* calls the orchestrator: one read of the whole upload, the size check and,
\* if that passed, the extension check
validate_steps(f) ==
    LET content == f.content
        file_size == len(content)
    IN  IF file_size > max_file_size THEN <<"read", "size">>
        ELSE <<"read", "size", "extension">>

\* extract_text_from_file, lines 51-62: what the service makes of the
\* orchestrator's outcome
service_result(f, r) ==
    IF r.raised THEN r
    ELSE IF ~r.value.success
    THEN Raise(HTTPException(500, "OCR processing failed: " \o r.value.error))
    ELSE Return([filename |-> f.filename,
                 file_size |-> len(f.content),
                 extracted_text |-> r.value.text,
                 metadata |-> r.value.metadata])

----------------------------------------------------------------------------
(* routers/ocr_router.py: POST /ocr/extract *)

\* faulty variant: no `except HTTPException: raise` before `except Exception`
router_response_rewrapped(r) ==
    IF ~r.raised
    THEN [status_code |-> 200, content |-> [status |-> "success", data |-> r.value]]
    ELSE [status_code |-> 500, content |-> [detail |-> "Internal server error: " \o str(r.exc)]]

\* what the client receives for the service's outcome
router_response(r) ==
    IF ~r.raised
    THEN [status_code |-> 200, content |-> [status |-> "success", data |-> r.value]]
    ELSE IF r.exc.type = "HTTPException"
    THEN [status_code |-> r.exc.status_code, content |-> [detail |-> r.exc.detail]]
    ELSE [status_code |-> 500, content |-> [detail |-> "Internal server error: " \o str(r.exc)]]

----------------------------------------------------------------------------
(* Uploads *)

FileNames == {<<"p", ".", "P", "N", "G">>, <<"a", ".", "z", "i", "p">>, <<"s", "c", "a", "n">>, None}

FileSizes == {max_file_size - 1, max_file_size, max_file_size + 1}

\* the bytes of an upload: their number and what the libraries make of them
Contents == [size : FileSizes, image : Images]

UploadFiles == [filename : FileNames, content : Contents]

----------------------------------------------------------------------------
(* The service as a state machine: one request at a time, from the router's
   call of extract_text_from_file to the response *)

\* no ConnectorManager has been constructed
NoManager ==
    /\ manager_module = "none"
    /\ config_file = Unset
    /\ _config = Unset
    /\ _connectors = <<>>
    /\ instances = <<>>
    /\ manager_call = Unset

\* no Workflow has been constructed
NoWorkflow ==
    /\ workflow = Unset
    /\ elements = Unset
    /\ frame = Unset
    /\ yielded = <<>>

Init ==
    /\ backend \in Backends
    \* OCRService.__init__: OCREngine(primary_engine='paddleocr', fallback_engine='tesseract')
    /\ primary_engine = create_engine("paddleocr", ~backend.paddleocr)
    /\ fallback_engine = create_engine("tesseract", ~backend.tesseract)
    /\ status = <<>>
    /\ requests = <<>>
    /\ steps = <<>>
    /\ pc = "Idle"
    /\ file = Unset
    /\ language = "en"
    /\ calls = <<>>
    /\ result = Unset
    /\ response = Unset
    /\ NoManager
    /\ NoWorkflow

Call(engine, op, ret) == [engine |-> engine, op |-> op, ret |-> ret]

\* faulty variant: the extension is checked before the size
extract_text_from_file_extension_first(f, lang) ==
    /\ file' = f
    /\ language' = lang
    /\ calls' = <<>>
    /\ result' = Unset
    /\ LET v == validate_file(f)
           bad_name == f.filename # None /\ lower(splitext_ext(f.filename)) \notin allowed_extensions
           w == IF bad_name
                THEN Raise(HTTPException(400, "Unsupported file type. Allowed types: .jpg, .jpeg, .png, .bmp, .tiff, .tif, .pdf"))
                ELSE v
       IN  /\ steps' = IF bad_name \/ f.filename = None THEN <<"read", "extension">>
                       ELSE <<"read", "extension", "size">>
           /\ IF w.raised
              THEN /\ pc' = "Responded"
                   /\ response' = router_response(w)
              ELSE /\ pc' = "NotStarted"
                   /\ response' = Unset
    /\ UNCHANGED <<manager_vars, workflow_vars, backend, status, primary_engine, fallback_engine>>

\* POST /ocr/extract arrives: extract_text_from_file reads and validates the
\* upload, and either raises or goes on to call the orchestrator
extract_text_from_file(f, lang) ==
    /\ file' = f
    /\ language' = lang
    /\ calls' = <<>>
    /\ result' = Unset
    /\ steps' = validate_steps(f)
    /\ LET v == validate_file(f)
       IN  IF v.raised
           THEN /\ pc' = "Responded"
                /\ response' = router_response(v)
           ELSE /\ pc' = "NotStarted"
                /\ response' = Unset
    /\ UNCHANGED <<manager_vars, workflow_vars, backend, status, primary_engine, fallback_engine>>

Request ==
    /\ pc = "Idle"
    /\ \E f \in UploadFiles, lang \in Languages : extract_text_from_file(f, lang)
    /\ UNCHANGED requests

\* extract_text_from_image is entered
Start ==
    /\ pc = "NotStarted"
    /\ pc' = "TryingPrimary"
    /\ steps' = Append(steps, "orchestrator")
    /\ UNCHANGED <<manager_vars, workflow_vars, requests, backend, status, primary_engine, fallback_engine, file, language, calls, result, response>>

\* faulty variant: the availability is asked for but not acted on
PrimaryIsAvailable_ignored ==
    /\ pc = "TryingPrimary"
    /\ calls' = Append(calls, Call("primary", "is_available", Return(is_available(primary_engine))))
    /\ pc' = "PrimaryExtract"
    /\ UNCHANGED <<manager_vars, workflow_vars, steps, requests, backend, status, primary_engine, fallback_engine, file, language, result, response>>

\* line 32: self.primary_engine.is_available()
PrimaryIsAvailable ==
    /\ pc = "TryingPrimary"
    /\ LET a == is_available(primary_engine)
       IN  /\ calls' = Append(calls, Call("primary", "is_available", Return(a)))
           /\ pc' = IF a THEN "PrimaryExtract" ELSE "TryingFallback"
    /\ UNCHANGED <<manager_vars, workflow_vars, steps, requests, backend, status, primary_engine, fallback_engine, file, language, result, response>>

\* faulty variant: a primary that failed is marked unavailable and loses its
\* PaddleOCR handle
PrimaryExtractText_marks_unavailable ==
    /\ pc = "PrimaryExtract"
    /\ LET r == extract_text(primary_engine, with_backend(file.content.image, backend), file.filename, language)
       IN  /\ calls' = Append(calls, Call("primary", "extract_text", r))
           /\ IF r.raised
              THEN pc' = "Raised" /\ result' = r /\ primary_engine' = primary_engine
              ELSE IF primary_accepted(r.value)
              THEN pc' = "Succeeded" /\ result' = r /\ primary_engine' = primary_engine
              ELSE /\ pc' = "TryingFallback"
                   /\ result' = Unset
                   /\ primary_engine' = IF r.value.success THEN primary_engine
                                        ELSE [cls |-> class_name(primary_engine), available |-> FALSE]
    /\ UNCHANGED <<manager_vars, workflow_vars, steps, requests, backend, status, fallback_engine, file, language, response>>

\* lines 33-35: the primary's extract_text and the decision on its result
PrimaryExtractText ==
    /\ pc = "PrimaryExtract"
    /\ LET r == extract_text(primary_engine, with_backend(file.content.image, backend), file.filename, language)
       IN  /\ calls' = Append(calls, Call("primary", "extract_text", r))
           /\ IF r.raised
              THEN pc' = "Raised" /\ result' = r
              ELSE IF primary_accepted(r.value)
              THEN pc' = "Succeeded" /\ result' = r
              ELSE pc' = "TryingFallback" /\ result' = Unset
    /\ UNCHANGED <<manager_vars, workflow_vars, steps, requests, backend, status, primary_engine, fallback_engine, file, language, response>>

\* faulty variant: with no fallback to run, a primary result that was a success
\* is returned after all
FallbackIsAvailable_keeps_primary ==
    /\ pc = "TryingFallback"
    /\ LET a == is_available(fallback_engine)
           kept == calls[Len(calls)].op = "extract_text" /\ calls[Len(calls)].ret.value.success
       IN  /\ calls' = Append(calls, Call("fallback", "is_available", Return(a)))
           /\ IF a
              THEN pc' = "FallbackExtract" /\ result' = Unset
              ELSE IF kept
              THEN pc' = "Succeeded" /\ result' = calls[Len(calls)].ret
              ELSE /\ pc' = "BothFailed"
                   /\ result' = Return(both_failed_result(primary_engine, fallback_engine))
    /\ UNCHANGED <<manager_vars, workflow_vars, steps, requests, backend, status, primary_engine, fallback_engine, file, language, response>>

\* line 38: self.fallback_engine.is_available(); lines 46-55 when it is not
FallbackIsAvailable ==
    /\ pc = "TryingFallback"
    /\ LET a == is_available(fallback_engine)
       IN  /\ calls' = Append(calls, Call("fallback", "is_available", Return(a)))
           /\ IF a
              THEN pc' = "FallbackExtract" /\ result' = Unset
              ELSE /\ pc' = "BothFailed"
                   /\ result' = Return(both_failed_result(primary_engine, fallback_engine))
    /\ UNCHANGED <<manager_vars, workflow_vars, steps, requests, backend, status, primary_engine, fallback_engine, file, language, response>>

\* faulty variant: a fallback that failed is marked unavailable
FallbackExtractText_marks_unavailable ==
    /\ pc = "FallbackExtract"
    /\ LET r == extract_text(fallback_engine, with_backend(file.content.image, backend), file.filename, language)
       IN  /\ calls' = Append(calls, Call("fallback", "extract_text", r))
           /\ IF r.raised
              THEN pc' = "Raised" /\ result' = r /\ fallback_engine' = fallback_engine
              ELSE IF fallback_accepted(r.value)
              THEN /\ pc' = "Succeeded"
                   /\ result' = Return(fallback_result(r.value, primary_engine))
                   /\ fallback_engine' = fallback_engine
              ELSE /\ pc' = "BothFailed"
                   /\ result' = Return(both_failed_result(primary_engine, fallback_engine))
                   /\ fallback_engine' = [fallback_engine EXCEPT !.available = FALSE]
    /\ UNCHANGED <<manager_vars, workflow_vars, steps, requests, backend, status, primary_engine, file, language, response>>

\* lines 39-55: the fallback's extract_text and the decision on its result
FallbackExtractText ==
    /\ pc = "FallbackExtract"
    /\ LET r == extract_text(fallback_engine, with_backend(file.content.image, backend), file.filename, language)
       IN  /\ calls' = Append(calls, Call("fallback", "extract_text", r))
           /\ IF r.raised
              THEN pc' = "Raised" /\ result' = r
              ELSE IF fallback_accepted(r.value)
              THEN /\ pc' = "Succeeded"
                   /\ result' = Return(fallback_result(r.value, primary_engine))
              ELSE /\ pc' = "BothFailed"
                   /\ result' = Return(both_failed_result(primary_engine, fallback_engine))
    /\ UNCHANGED <<manager_vars, workflow_vars, steps, requests, backend, status, primary_engine, fallback_engine, file, language, response>>

\* extract_text_from_image has returned (or raised): the service maps the
\* outcome and the router answers the client
Respond ==
    /\ pc \in {"Succeeded", "BothFailed", "Raised"}
    /\ pc' = "Responded"
    /\ response' = router_response(service_result(file, result))
    /\ UNCHANGED <<manager_vars, workflow_vars, steps, requests, backend, status, primary_engine, fallback_engine, file, language, calls, result>>

\* the request is over; nothing of it is kept
Complete ==
    /\ pc = "Responded"
    /\ pc' = "Idle"
    /\ file' = Unset
    /\ language' = "en"
    /\ calls' = <<>>
    /\ result' = Unset
    /\ response' = Unset
    /\ steps' = <<>>
    /\ UNCHANGED <<manager_vars, workflow_vars, requests, backend, status, primary_engine, fallback_engine>>

Next ==
    \/ Request
    \/ Start
    \/ PrimaryIsAvailable
    \/ PrimaryExtractText
    \/ FallbackIsAvailable
    \/ FallbackExtractText
    \/ Respond
    \/ Complete

Spec == Init /\ [][Next]_vars

----------------------------------------------------------------------------
(* The engines on their own: extract_text called directly on either engine,
   whatever its availability, as a caller other than OCREngine may do *)

InitEngine ==
    /\ backend \in Backends
    \* OCRService.__init__: OCREngine(primary_engine='paddleocr', fallback_engine='tesseract')
    /\ primary_engine = create_engine("paddleocr", ~backend.paddleocr)
    /\ fallback_engine = create_engine("tesseract", ~backend.tesseract)
    /\ status = <<>>
    /\ requests = <<>>
    /\ steps = <<>>
    /\ pc = "Direct"
    /\ file = Unset
    /\ language = "en"
    /\ calls = <<>>
    /\ result = Unset
    /\ response = Unset
    /\ NoManager
    /\ NoWorkflow

DirectCall(which, self, f, lang) ==
    /\ file' = f
    /\ language' = lang
    /\ result' = extract_text(self, with_backend(f.content.image, backend), f.filename, lang)
    /\ calls' = <<Call(which, "extract_text", result')>>
    /\ pc' = "DirectReturned"
    /\ UNCHANGED <<manager_vars, workflow_vars, steps, requests, backend, status, primary_engine, fallback_engine, response>>

\* PaddleOCREngine.extract_text(image_data, filename, language)
PaddleExtractText ==
    /\ pc = "Direct"
    /\ \E f \in UploadFiles, lang \in Languages :
        f.content.size = max_file_size /\ DirectCall("primary", primary_engine, f, lang)

\* TesseractEngine.extract_text(image_data, filename, language)
TesseractExtractText ==
    /\ pc = "Direct"
    /\ \E f \in UploadFiles, lang \in Languages :
        f.content.size = max_file_size /\ DirectCall("fallback", fallback_engine, f, lang)

\* the caller drops the result; the engines are as they were
DirectDone ==
    /\ pc = "DirectReturned"
    /\ pc' = "Direct"
    /\ file' = Unset
    /\ language' = "en"
    /\ calls' = <<>>
    /\ result' = Unset
    /\ UNCHANGED <<manager_vars, workflow_vars, steps, requests, backend, status, primary_engine, fallback_engine, response>>

NextEngine == PaddleExtractText \/ TesseractExtractText \/ DirectDone

SpecEngine == InitEngine /\ [][NextEngine]_vars

----------------------------------------------------------------------------
(* GET /ocr/status next to POST /ocr/extract, in an environment where the
   libraries come and go after the engines were constructed *)

\* routers/ocr_router.py, get_ocr_engines_status: what the client receives
status_response(s) == [status_code |-> 200, content |-> [status |-> "success", data |-> s]]

\* GET /ocr/status is served, between two runs of the extract handler or after
\* one has made its response; `after` holds the status code of the request
\* just served, if there is one
GetEngineStatus ==
    /\ pc \in {"Idle", "Responded"}
    /\ LET s == [response |-> status_response(get_engine_status(primary_engine, fallback_engine)),
                 after |-> IF pc = "Responded" THEN <<response.status_code>> ELSE <<>>]
       IN  status' = IF Len(status) < 2 THEN Append(status, s) ELSE <<status[2], s>>
    /\ UNCHANGED <<manager_vars, workflow_vars, steps, requests, backend, primary_engine, fallback_engine, pc, file, language, calls, result,
                   response>>

\* a library is removed from, or installed on, the host, between two requests
BackendChanges ==
    /\ pc = "Idle"
    /\ \E b \in Backends :
        /\ b # backend
        /\ b.paddleocr = backend.paddleocr \/ b.tesseract = backend.tesseract
        /\ backend' = b
    /\ UNCHANGED <<manager_vars, workflow_vars, steps, requests, status, primary_engine, fallback_engine, pc, file, language, calls, result,
                   response>>

\* valid uploads; of the images, those whose word confidences are 87 and 88
\* when pytesseract reports any, and whose lines PaddleOCR is sure of
StatusUploads ==
    {f \in UploadFiles :
        /\ ~validate_file(f).raised
        /\ len(f.content) = max_file_size
        /\ ~f.content.image.tesseract.image_to_data.raised =>
            f.content.image.tesseract.image_to_data.value.conf = <<87, 88>>
        /\ ~f.content.image.paddle.raised =>
            \A i \in 1..Len(f.content.image.paddle.value) :
                f.content.image.paddle.value[i] # NoLine =>
                    f.content.image.paddle.value[i].confidence = 1000}

\* POST /ocr/extract with a valid upload
RequestImage ==
    /\ pc = "Idle"
    /\ \E f \in StatusUploads : extract_text_from_file(f, "en")
    /\ UNCHANGED requests

NextStatus ==
    \/ GetEngineStatus
    \/ BackendChanges
    \/ RequestImage
    \/ Start
    \/ PrimaryIsAvailable
    \/ PrimaryExtractText
    \/ FallbackIsAvailable
    \/ FallbackExtractText
    \/ Respond
    \/ Complete

SpecStatus == Init /\ [][NextStatus]_vars

----------------------------------------------------------------------------
(* Concurrent requests.  The handler of POST /ocr/extract is a coroutine on
   one event loop: it gives up the loop at `await file.read()` and nowhere
   else, so other handlers run while it waits for its upload and none runs
   between its read and its response.  pc, file, language, calls, result and
   response are those of the handler that holds the loop. *)

RequestIds == 1..MaxRequests

\* a page both libraries read as "a"
ImageBoth ==
    [open |-> Return(ImageInfo),
     paddle |-> Return(<<[text |-> <<"a">>, confidence |-> 1000]>>),
     tesseract |-> [image_to_string |-> Return(<<"a">>),
                    image_to_data |-> Return([conf |-> <<87, 88>>])]]

\* a page PaddleOCR chokes on and pytesseract reads as a blank
ImageTesseractOnly ==
    [open |-> Return(ImageInfo),
     paddle |-> Raise(PaddleError),
     tesseract |-> [image_to_string |-> Return(<<" ">>),
                    image_to_data |-> Return([conf |-> <<-1, 0>>])]]

\* bytes that are no image
ImageBroken ==
    [open |-> Raise(PILError), paddle |-> Raise(PILError),
     tesseract |-> [image_to_string |-> Raise(PILError), image_to_data |-> Raise(PILError)]]

ConcurrentUploads ==
    {f \in [filename : {<<"p", ".", "P", "N", "G">>, <<"a", ".", "z", "i", "p">>},
            content : [size : {max_file_size},
                       image : {ImageBoth, ImageTesseractOnly, ImageBroken}]] :
        f.filename = <<"a", ".", "z", "i", "p">> => f.content.image = ImageBoth}

\* a request arrives: its handler starts and waits for the upload's bytes
Receive(id) ==
    /\ pc = "Idle"
    /\ id \notin DOMAIN requests
    /\ \E f \in ConcurrentUploads, lang \in Languages :
        requests' = requests @@ (id :> [state |-> "waiting", file |-> f, language |-> lang])
    /\ UNCHANGED <<manager_vars, workflow_vars, steps, backend, status, primary_engine, fallback_engine, pc, file, language, calls, result,
                   response>>

\* faulty variant: the upload is kept in a slot the handlers share, so that a
\* handler resumes with the upload of a handler still waiting, if there is one
Resume_shared_upload(id) ==
    /\ pc = "Idle"
    /\ id \in DOMAIN requests
    /\ requests[id].state = "waiting"
    /\ requests' = [requests EXCEPT ![id].state = "running"]
    /\ LET others == {o \in DOMAIN requests : o # id /\ requests[o].state = "waiting"}
           from == IF others = {} THEN id ELSE CHOOSE o \in others : TRUE
       IN  extract_text_from_file(requests[from].file, requests[from].language)

\* ocr_service.py line 30: file.read() completes and the handler runs on, with
\* its own upload and language
Resume(id) ==
    /\ pc = "Idle"
    /\ id \in DOMAIN requests
    /\ requests[id].state = "waiting"
    /\ requests' = [requests EXCEPT ![id].state = "running"]
    /\ extract_text_from_file(requests[id].file, requests[id].language)

\* the handler returns its response and frees the loop
Deliver ==
    /\ pc = "Responded"
    /\ \E id \in DOMAIN requests :
        /\ requests[id].state = "running"
        /\ requests' = [requests EXCEPT ![id] = [state |-> "answered",
                                                 file |-> requests[id].file,
                                                 language |-> requests[id].language,
                                                 response |-> response]]
    /\ pc' = "Idle"
    /\ file' = Unset
    /\ language' = "en"
    /\ calls' = <<>>
    /\ result' = Unset
    /\ response' = Unset
    /\ steps' = <<>>
    /\ UNCHANGED <<manager_vars, workflow_vars, backend, status, primary_engine, fallback_engine>>

NextConcurrent ==
    \/ \E id \in RequestIds : Receive(id)
    \/ \E id \in RequestIds : Resume(id)
    \/ Start
    \/ PrimaryIsAvailable
    \/ PrimaryExtractText
    \/ FallbackIsAvailable
    \/ FallbackExtractText
    \/ Respond
    \/ Deliver

SpecConcurrent == Init /\ [][NextConcurrent]_vars

----------------------------------------------------------------------------
(* Properties *)

\* the orchestrator's calls of one operation of one engine, in order
CallsOf(engine, op) == SelectSeq(calls, LAMBDA c : c.engine = engine /\ c.op = op)

Called(engine, op) == CallsOf(engine, op) # <<>>

\* extract_text_from_image has returned or raised
Finished == result # Unset

\* a request is being served by the orchestrator or has been
InCall == pc \in {"NotStarted", "TryingPrimary", "PrimaryExtract", "TryingFallback",
                  "FallbackExtract", "Succeeded", "BothFailed", "Raised"} \/ Finished

\* what each engine's extract_text gives for the request's arguments
PrimaryGives ==
    extract_text(primary_engine, with_backend(file.content.image, backend), file.filename, language)
FallbackGives ==
    extract_text(fallback_engine, with_backend(file.content.image, backend), file.filename, language)

\* the identifier an engine writes to metadata.engine: its key in OCREngineFactory
engine_key(self) == IF self.cls = "PaddleOCREngine" THEN "paddleocr" ELSE "tesseract"

\* C1: extract_text_from_image returns the primary's own result (no call of the
\* fallback's extract_text, metadata.engine the primary's, no fallback_used) if
\* and only if the primary is available and its extract_text returns success
\* with text that is not empty after stripping.
C1_PrimaryResultIff ==
    Finished =>
        LET own == /\ ~result.raised
                   /\ CallsOf("primary", "extract_text") = <<Call("primary", "extract_text", PrimaryGives)>>
                   /\ result = PrimaryGives
                   /\ ~Called("fallback", "extract_text")
                   /\ result.value.metadata.engine = engine_key(primary_engine)
                   /\ "fallback_used" \notin DOMAIN result.value.metadata
            cond == /\ is_available(primary_engine)
                    /\ ~PrimaryGives.raised
                    /\ PrimaryGives.value.success
                    /\ strip(PrimaryGives.value.text) # <<>>
        IN  own <=> cond

C1_Witness ==
    /\ pc = "Succeeded"
    /\ ~Called("fallback", "is_available")
    /\ result.value.text = <<"a">>
    /\ result.value.metadata.engine = "paddleocr"

\* C2: with an unavailable primary, the primary's extract_text is never called
\* and the call goes on to the fallback attempt: the fallback's availability
\* check, then its extract_text if it is available.
C2_UnavailablePrimarySkipped ==
    (InCall /\ ~is_available(primary_engine)) =>
        /\ pc # "PrimaryExtract"
        /\ ~Called("primary", "extract_text")
        /\ Len(calls) <= 3
        /\ Len(calls) >= 1 => calls[1] = Call("primary", "is_available", Return(FALSE))
        /\ Len(calls) >= 2 =>
            calls[2] = Call("fallback", "is_available", Return(is_available(fallback_engine)))
        /\ Len(calls) >= 3 =>
            is_available(fallback_engine) /\ calls[3] = Call("fallback", "extract_text", FallbackGives)
        /\ Len(calls) = 1 => pc = "TryingFallback"
        /\ Finished =>
            /\ Called("fallback", "is_available")
            /\ is_available(fallback_engine) => Called("fallback", "extract_text")

C2_Witness ==
    /\ pc = "Succeeded"
    /\ ~is_available(primary_engine)
    /\ Called("fallback", "extract_text")

\* the primary's extract_text was called and returned success with text that is
\* empty or white space only
PrimaryEmptySuccess ==
    /\ Called("primary", "extract_text")
    /\ ~PrimaryGives.raised
    /\ PrimaryGives.value.success
    /\ strip(PrimaryGives.value.text) = <<>>

\* C3: after a primary success with empty or white-space text the fallback is
\* attempted, and a fallback that is available and succeeds gives a Success
\* with fallback_used = true, the fallback's text being empty or not.
C3_EmptyPrimaryFallsBack ==
    PrimaryEmptySuccess =>
        /\ pc \in {"TryingFallback", "FallbackExtract", "Succeeded", "BothFailed", "Responded"}
        /\ Finished =>
            /\ Called("fallback", "is_available")
            /\ (is_available(fallback_engine) /\ ~FallbackGives.raised /\ FallbackGives.value.success) =>
                /\ ~result.raised
                /\ result.value.success
                /\ result.value.text = FallbackGives.value.text
                /\ "fallback_used" \in DOMAIN result.value.metadata
                /\ result.value.metadata.fallback_used = TRUE

C3_Witness ==
    /\ pc = "Succeeded"
    /\ PrimaryEmptySuccess
    /\ result.value.text = <<>>
    /\ result.value.metadata.fallback_used = TRUE

\* the engine is unavailable or its extract_text returns a Failure
EngineFails(self, gives) == ~is_available(self) \/ (~gives.raised /\ ~gives.value.success)

\* C4: when each engine is unavailable or returns a Failure, the call returns
\* (does not raise) the Failure with success = false, the generic message,
\* empty text and metadata naming both engines.
C4_BothFailedResult ==
    (Finished /\ EngineFails(primary_engine, PrimaryGives) /\ EngineFails(fallback_engine, FallbackGives)) =>
        /\ ~result.raised
        /\ result.value.success = FALSE
        /\ result.value.error = "Both OCR engines failed or are unavailable"
        /\ result.value.text = <<>>
        /\ result.value.metadata = [primary_engine |-> primary_engine.cls,
                                    fallback_engine |-> fallback_engine.cls]
        /\ pc \in {"BothFailed", "Responded"}

C4_Witness ==
    /\ pc = "BothFailed"
    /\ ~is_available(primary_engine)
    /\ Called("fallback", "extract_text")

\* C5: a Success produced by the fallback is the fallback's result with
\* metadata.fallback_used = true and metadata.primary_engine added and nothing
\* else changed.
C5_FallbackResultUnchanged ==
    (Finished /\ ~result.raised /\ result.value.success /\ Called("fallback", "extract_text")) =>
        LET f == FallbackGives.value
            md == result.value.metadata
        IN  /\ DOMAIN result.value = DOMAIN f
            /\ result.value.success = f.success
            /\ result.value.text = f.text
            /\ DOMAIN f.metadata \cap {"fallback_used", "primary_engine"} = {}
            /\ DOMAIN md = DOMAIN f.metadata \cup {"fallback_used", "primary_engine"}
            /\ \A k \in DOMAIN f.metadata : md[k] = f.metadata[k]
            /\ md.fallback_used = TRUE
            /\ md.primary_engine = primary_engine.cls

\* the primary failed on an exception of its backend; the fallback read a text
\* with confidence 87.5
C5_Witness ==
    /\ pc = "Succeeded"
    /\ Called("primary", "extract_text")
    /\ ~PrimaryGives.value.success
    /\ PrimaryGives.value.error = str(PaddleError)
    /\ result.value.text = <<"a">>
    /\ result.value.metadata.confidence = [num |-> 175, den |-> 2]
    /\ result.value.metadata.fallback_used = TRUE

\* C6: the attempts of one call are sequential: each extract_text at most once,
\* nothing of the fallback before the primary attempt is over, no fallback
\* extract_text after a primary success with text.
C6_Sequential ==
    /\ Len(CallsOf("primary", "extract_text")) <= 1
    /\ Len(CallsOf("fallback", "extract_text")) <= 1
    /\ Len(CallsOf("primary", "is_available")) <= 1
    /\ Len(CallsOf("fallback", "is_available")) <= 1
    /\ \A i, j \in 1..Len(calls) :
        (i < j /\ calls[i].engine = "fallback") => calls[j].engine = "fallback"
    /\ \A j \in 1..Len(calls) :
        /\ (calls[j].engine = "primary" /\ calls[j].op = "extract_text") =>
            /\ j = 2
            /\ calls[1].engine = "primary" /\ calls[1].op = "is_available"
            /\ calls[1].ret.value = TRUE
        /\ calls[j].engine = "fallback" =>
            /\ calls[1].engine = "primary" /\ calls[1].op = "is_available"
            /\ \/ calls[1].ret.value = FALSE
               \/ j >= 3 /\ calls[2].engine = "primary" /\ calls[2].op = "extract_text"
        /\ (calls[j].engine = "fallback" /\ calls[j].op = "extract_text") =>
            /\ calls[j - 1].engine = "fallback" /\ calls[j - 1].op = "is_available"
            /\ calls[j - 1].ret.value = TRUE
            /\ \A i \in 1..(j - 1) :
                (calls[i].engine = "primary" /\ calls[i].op = "extract_text") =>
                    ~(/\ ~calls[i].ret.raised
                      /\ calls[i].ret.value.success
                      /\ strip(calls[i].ret.value.text) # <<>>)

C6_Witness ==
    /\ pc = "Succeeded"
    /\ Len(calls) = 4

\* what the backend library does when the engine runs it on the image: the
\* exception it raises, if any
BackendRaises(self, image) ==
    IF image.open.raised THEN image.open
    ELSE IF self.cls = "PaddleOCREngine" THEN image.paddle
    ELSE image.tesseract.image_to_string

\* C7: extract_text of either engine always returns a result record: the
\* Failure carrying the exception's message when the backend library raises, a
\* Success when it does not; no exception reaches the caller.
C7_EnginesNeverRaise ==
    \A i \in 1..Len(calls) :
        calls[i].op = "extract_text" =>
            LET self == IF calls[i].engine = "primary" THEN primary_engine ELSE fallback_engine
                lib == BackendRaises(self, with_backend(file.content.image, backend))
                ret == calls[i].ret
            IN  /\ ~ret.raised
                /\ DOMAIN ret.value \in {{"success", "text", "metadata"}, {"success", "error", "text", "metadata"}}
                /\ (is_available(self) /\ lib.raised) =>
                    /\ ~ret.value.success
                    /\ ret.value.error = lib.exc.message
                /\ (is_available(self) /\ ~lib.raised) => ret.value.success
                /\ ~is_available(self) => ~ret.value.success

\* malformed bytes given to an available engine
C7_Witness ==
    /\ pc = "DirectReturned"
    /\ is_available(IF calls[1].engine = "primary" THEN primary_engine ELSE fallback_engine)
    /\ file.content.image.open.raised
    /\ ~result.raised
    /\ ~result.value.success
    /\ result.value.error = "cannot identify image file"

\* the steps extract_text_from_image has still to take, at most
StepsLeft ==
    CASE pc = "NotStarted" -> 5
      [] pc = "TryingPrimary" -> 4
      [] pc = "PrimaryExtract" -> 3
      [] pc = "TryingFallback" -> 2
      [] pc = "FallbackExtract" -> 1
      [] OTHER -> 0

\* in every state of a call: the numbers of engine operations, and what the
\* terminal states hold
C8_Counts ==
    /\ Len(SelectSeq(calls, LAMBDA c : c.op = "is_available")) <= 2
    /\ Len(SelectSeq(calls, LAMBDA c : c.op = "extract_text")) <= 2
    /\ pc # "Raised"
    /\ Finished =>
        /\ ~result.raised
        /\ pc \in {"Succeeded", "BothFailed", "Responded"}
        /\ pc = "Succeeded" => result.value.success
        /\ pc = "BothFailed" => ~result.value.success
    /\ pc \in {"Succeeded", "BothFailed"} => Finished
    /\ StepsLeft > 0 => ~Finished /\ Len(calls) + StepsLeft <= 5

\* every step of a call that has not ended brings it nearer to its end, and the
\* end is Succeeded or BothFailed
C8_Progress ==
    StepsLeft > 0 =>
        /\ StepsLeft' < StepsLeft
        /\ StepsLeft' = 0 => pc' \in {"Succeeded", "BothFailed"}

\* C8: every call ends, after at most two availability checks and two
\* extract_text calls, in Succeeded with a Success result or in BothFailed with
\* a Failure result; it does not raise, and no step leaves it in TryingPrimary
\* or TryingFallback.
C8_TerminatesInOneOfTwo == [](C8_Counts) /\ [][C8_Progress]_vars

C8_Witness ==
    /\ pc = "BothFailed"
    /\ Len(calls) = 4
    /\ ~result.value.success

\* the fallback's extract_text ran in this call and returned success
FallbackRanAndSucceeded ==
    /\ Called("fallback", "extract_text")
    /\ ~CallsOf("fallback", "extract_text")[1].ret.raised
    /\ CallsOf("fallback", "extract_text")[1].ret.value.success

\* C9: a returned result has fallback_used (= true) exactly when the fallback's
\* extract_text ran in the call and returned success; after a primary success
\* and in the BothFailed result it is absent.
C9_FallbackUsedOnlyIfRan ==
    (Finished /\ ~result.raised) =>
        LET md == result.value.metadata
        IN  /\ "fallback_used" \in DOMAIN md <=> FallbackRanAndSucceeded
            /\ "fallback_used" \in DOMAIN md => md.fallback_used = TRUE
            /\ (~Called("fallback", "extract_text") \/ ~result.value.success) =>
                "fallback_used" \notin DOMAIN md

\* the fallback ran and failed
C9_Witness ==
    /\ pc = "BothFailed"
    /\ Called("fallback", "extract_text")
    /\ "fallback_used" \notin DOMAIN result.value.metadata

\* the request's file name has an allowed extension
AllowedName(f) == f.filename # None /\ lower(splitext_ext(f.filename)) \in allowed_extensions

\* C10: an upload of exactly max_file_size bytes passes the size check; one of
\* max_file_size + 1 bytes or more is answered 413 without any engine operation
\* being called.
C10_SizeBoundary ==
    (pc \in {"NotStarted", "TryingPrimary", "PrimaryExtract", "TryingFallback", "FallbackExtract",
             "Succeeded", "BothFailed", "Raised", "Responded"}) =>
        /\ len(file.content) >= max_file_size + 1 =>
            /\ pc = "Responded"
            /\ response.status_code = 413
            /\ calls = <<>>
            /\ result = Unset
        /\ len(file.content) <= max_file_size =>
            ~(pc = "Responded" /\ response.status_code = 413)
        /\ (len(file.content) = max_file_size /\ AllowedName(file) /\ pc = "Responded") =>
            /\ calls # <<>>
            /\ Finished

C10_Witness ==
    /\ pc = "Responded"
    /\ len(file.content) = max_file_size
    /\ response.status_code = 200
    /\ response.content.data.file_size = 50 * 1024 * 1024

\* a request is in progress or has just been answered
InRequest == file # Unset

\* the request passed the size check and has a file name
SizeOkNamed == InRequest /\ len(file.content) <= max_file_size /\ file.filename # None

\* C11: the extension is compared in lower case: an upload whose extension
\* lower-cases to an allowed one (p.PNG) is passed to the orchestrator, and one
\* with any other extension (a.zip, or none) is answered 400 "Unsupported file
\* type" with no engine operation called.
C11_ExtensionCaseInsensitive ==
    SizeOkNamed =>
        /\ lower(splitext_ext(file.filename)) \in allowed_extensions =>
            /\ pc \in {"NotStarted", "TryingPrimary", "PrimaryExtract", "TryingFallback",
                       "FallbackExtract", "Succeeded", "BothFailed", "Responded"}
            /\ pc = "Responded" => (calls # <<>> /\ Finished /\ response.status_code # 400)
        /\ lower(splitext_ext(file.filename)) \notin allowed_extensions =>
            /\ pc = "Responded"
            /\ response.status_code = 400
            /\ SubSeq(response.content.detail, 1, 21) = "Unsupported file type"
            /\ calls = <<>>
            /\ result = Unset
        /\ file.filename = <<"p", ".", "P", "N", "G">> => ~(pc = "Responded" /\ calls = <<>>)
        /\ file.filename = <<"a", ".", "z", "i", "p">> => (pc = "Responded" /\ calls = <<>>)

\* p.PNG went through the orchestrator and was answered
C11_Witness ==
    /\ pc = "Responded"
    /\ file.filename = <<"p", ".", "P", "N", "G">>
    /\ splitext_ext(file.filename) \notin allowed_extensions
    /\ Called("primary", "extract_text")
    /\ response.status_code = 200

\* the orchestrator returned a Failure result to the service
OrchestratorFailure == Finished /\ ~result.raised /\ ~result.value.success

\* C12: when the orchestrator returns a Failure for a validated upload, the
\* service raises the 500 whose detail is "OCR processing failed: " followed by
\* the Failure's error; a success record is answered only for a Success.
C12_FailureBecomes500 ==
    /\ (pc = "Responded" /\ OrchestratorFailure) =>
        /\ validate_file(file) = Return(file.content)
        /\ response.status_code = 500
        /\ DOMAIN response.content = {"detail"}
        /\ response.content.detail = "OCR processing failed: " \o result.value.error
    /\ (pc = "Responded" /\ response.status_code = 200) =>
        /\ Finished
        /\ ~result.raised
        /\ result.value.success

\* both engines ran and failed
C12_Witness ==
    /\ pc = "Responded"
    /\ OrchestratorFailure
    /\ Len(calls) = 4
    /\ response.content.detail = "OCR processing failed: Both OCR engines failed or are unavailable"

\* the orchestrator returned a Success result to the service
OrchestratorSuccess == Finished /\ ~result.raised /\ result.value.success

\* C13: for an orchestrator Success the service returns the record of the
\* upload's own file name, the number of bytes read, the result's text and the
\* result's metadata as it is, with fallback_used and primary_engine in it
\* when the fallback produced the result.
C13_SuccessRecord ==
    (pc = "Responded" /\ OrchestratorSuccess) =>
        /\ response.status_code = 200
        /\ response.content.status = "success"
        /\ LET data == response.content.data
           IN  /\ DOMAIN data = {"filename", "file_size", "extracted_text", "metadata"}
               /\ data.filename = file.filename
               /\ data.file_size = file.content.size
               /\ data.extracted_text = result.value.text
               /\ data.metadata = result.value.metadata
               /\ FallbackRanAndSucceeded =>
                   /\ data.extracted_text = FallbackGives.value.text
                   /\ data.metadata.fallback_used = TRUE
                   /\ data.metadata.primary_engine = class_name(primary_engine)
                   /\ \A k \in DOMAIN FallbackGives.value.metadata :
                       data.metadata[k] = FallbackGives.value.metadata[k]
               /\ ~Called("fallback", "extract_text") =>
                   /\ data.extracted_text = PrimaryGives.value.text
                   /\ data.metadata = PrimaryGives.value.metadata

\* a fallback success for p.PNG of max_file_size - 1 bytes
C13_Witness ==
    /\ pc = "Responded"
    /\ OrchestratorSuccess
    /\ FallbackRanAndSucceeded
    /\ response.content.data.filename = <<"p", ".", "P", "N", "G">>
    /\ response.content.data.file_size = max_file_size - 1
    /\ response.content.data.extracted_text = <<"a">>
    /\ response.content.data.metadata.primary_engine = "PaddleOCREngine"

\* C14: a request is answered 200 with status "success" exactly for an
\* orchestrator Success, 413 exactly for a file over the size limit, 400
\* exactly for an unsupported extension, and 500 otherwise (both engines
\* failed, or an exception that is not an HTTPException); the service's 413
\* and 400 reach the client with their own status and detail.
C14_HTTPOutcomes ==
    pc = "Responded" =>
        LET v == validate_file(file)
            code == response.status_code
        IN  /\ code \in {200, 413, 400, 500}
            /\ code = 200 <=> OrchestratorSuccess
            /\ code = 200 => response.content.status = "success"
            /\ code = 413 <=> len(file.content) > max_file_size
            /\ code = 400 <=>
                /\ len(file.content) <= max_file_size
                /\ file.filename # None
                /\ lower(splitext_ext(file.filename)) \notin allowed_extensions
            /\ code = 500 <=>
                \/ OrchestratorFailure
                \/ v.raised /\ v.exc.type # "HTTPException"
                \/ Finished /\ result.raised
            /\ (v.raised /\ v.exc.type = "HTTPException") =>
                /\ v.exc.status_code \in {413, 400}
                /\ code = v.exc.status_code
                /\ response.content = [detail |-> v.exc.detail]

\* the service's 413 has reached the client
C14_Witness ==
    /\ pc = "Responded"
    /\ response.status_code = 413
    /\ validate_file(file).raised
    /\ validate_file(file).exc.status_code = 413
    /\ response.content.detail = "File too large. Maximum size is 50MB"

\* the response of the status query just served
LastStatus == status[Len(status)].response.content.data

\* C15: availability is re-checked on every invocation: each status query and
\* each is_available() the orchestrator makes for a request reports whether the
\* engine's library can be run at the time of the call, also when that has
\* changed since the engine was constructed.
C15_AvailabilityRechecked ==
    [][/\ GetEngineStatus =>
            /\ LastStatus'.primary_engine.available = backend.paddleocr
            /\ LastStatus'.fallback_engine.available = backend.tesseract
       /\ PrimaryIsAvailable => calls'[Len(calls')].ret.value = backend.paddleocr
       /\ FallbackIsAvailable => calls'[Len(calls')].ret.value = backend.tesseract]_vars

\* C16: two successive status queries report the same availability and the
\* same supported languages for both engines, whatever extraction requests,
\* successful or failed, were served between them.
C16_StatusIdempotent ==
    Len(status) = 2 =>
        LET first == status[1].response.content.data
            second == status[2].response.content.data
        IN  /\ status[1].response.status_code = 200
            /\ status[2].response.status_code = 200
            /\ \A e \in {"primary_engine", "fallback_engine"} :
                /\ first[e].available = second[e].available
                /\ first[e].supported_languages = second[e].supported_languages

\* a status query before and one after a request in which both engines ran and
\* failed
C16_Witness ==
    /\ Len(status) = 2
    /\ status[1].after = <<>>
    /\ status[2].after = <<500>>
    /\ pc = "Responded"
    /\ Len(calls) = 4
    /\ response.status_code = 500
    /\ status[2].response.content.data.fallback_engine.available

\* C17: every status response has an entry for the primary and one for the
\* fallback, and each entry's `available` is what that engine's own
\* is_available() returns, whatever the other engine's availability.
C17_StatusBothEngines ==
    \A i \in 1..Len(status) :
        LET data == status[i].response.content.data
        IN  /\ status[i].response.status_code = 200
            /\ status[i].response.content.status = "success"
            /\ DOMAIN data = {"primary_engine", "fallback_engine"}
            /\ DOMAIN data.primary_engine = {"name", "available", "supported_languages"}
            /\ DOMAIN data.fallback_engine = {"name", "available", "supported_languages"}
            /\ data.primary_engine.available = PaddleOCREngine_is_available(primary_engine)
            /\ data.fallback_engine.available = TesseractEngine_is_available(fallback_engine)

\* the primary is unavailable, the fallback available
C17_Witness ==
    /\ status # <<>>
    /\ ~is_available(primary_engine)
    /\ is_available(fallback_engine)
    /\ ~status[1].response.content.data.primary_engine.available
    /\ status[1].response.content.data.fallback_engine.available

\* the engine objects as OCRService.__init__ may have constructed them
Constructed ==
    /\ primary_engine \in {create_engine("paddleocr", b) : b \in BOOLEAN}
    /\ fallback_engine \in {create_engine("tesseract", b) : b \in BOOLEAN}

\* when the call returns, its result is the one the call gives on its own
ResultOfCallAlone ==
    /\ Constructed
    /\ pc \in {"Succeeded", "BothFailed", "Raised"} =>
        result = extract_text_from_image(primary_engine, fallback_engine,
                                         with_backend(file.content.image, backend),
                                         file.filename, language)

\* no step changes an engine reference or an engine field
EnginesUnchanged == primary_engine' = primary_engine /\ fallback_engine' = fallback_engine

\* C18: no step of an extraction or of a status query changes the
\* orchestrator's engine references or any engine field, and the result of a
\* call is the one the same call gives on its own, whatever calls, successful
\* or failed, were served before it.
C18_NoStateAcrossRequests == [](ResultOfCallAlone) /\ [][EnginesUnchanged]_vars

\* a call succeeds after a request in which both engines failed and a status
\* query
C18_Witness ==
    /\ pc = "Succeeded"
    /\ Len(status) = 2
    /\ status[2].after = <<500>>
    /\ ~Called("fallback", "is_available")
    /\ result.value.text = <<"a">>

\* what the client of a request with this upload and language receives when
\* the request is the only one
ResponseAlone(f, lang) ==
    LET v == validate_file(f)
    IN  router_response(
            IF v.raised THEN v
            ELSE service_result(f, extract_text_from_image(primary_engine, fallback_engine,
                                                           with_backend(f.content.image, backend),
                                                           f.filename, lang)))

\* a response that carries a record carries the request's own file name and
\* language
OwnData(r, f, lang) ==
    r.status_code = 200 =>
        /\ r.content.data.filename = f.filename
        /\ r.content.data.metadata.filename = f.filename
        /\ r.content.data.metadata.language = lang

\* C19: however the handlers of concurrent requests interleave, each request
\* is answered what it would be answered alone, from its own upload, file name
\* and language; no response carries another request's text or metadata.
C19_ConcurrentRequestsIsolated ==
    \A id \in DOMAIN requests :
        LET r == requests[id]
        IN  /\ r.state = "answered" =>
                /\ r.response = ResponseAlone(r.file, r.language)
                /\ OwnData(r.response, r.file, r.language)
            /\ (r.state = "running" /\ pc = "Responded") =>
                /\ response = ResponseAlone(r.file, r.language)
                /\ OwnData(response, r.file, r.language)

\* request 2 is answered from the fallback while request 1, with another
\* language and an image the primary reads, still waits for its upload
C19_Witness ==
    /\ DOMAIN requests = {1, 2}
    /\ requests[1].state = "waiting"
    /\ requests[1].file.content.image = ImageBoth
    /\ requests[1].language = "tamil"
    /\ requests[2].state = "running"
    /\ requests[2].file.content.image = ImageTesseractOnly
    /\ pc = "Responded"
    /\ response.status_code = 200
    /\ response.content.data.metadata.language = "en"
    /\ response.content.data.metadata.fallback_used = TRUE

\* the engine object an entry of the call log is about
EngineOf(c) == IF c.engine = "primary" THEN primary_engine ELSE fallback_engine

\* C20: an engine has one identifier: the metadata.engine of a result it
\* produced, its name in get_engine_status and, for the primary, the
\* metadata.primary_engine of a fallback success or of the BothFailed result
\* are equal.
C20_OneIdentifier ==
    \A i \in 1..Len(calls) :
        (/\ calls[i].op = "extract_text"
         /\ ~calls[i].ret.raised
         /\ "engine" \in DOMAIN calls[i].ret.value.metadata) =>
            LET id == calls[i].ret.value.metadata.engine
                st == get_engine_status(primary_engine, fallback_engine)
            IN  /\ id = (IF calls[i].engine = "primary" THEN st.primary_engine.name
                         ELSE st.fallback_engine.name)
                /\ (/\ calls[i].engine = "primary"
                     /\ Finished
                     /\ ~result.raised
                     /\ "primary_engine" \in DOMAIN result.value.metadata) =>
                        result.value.metadata.primary_engine = id

\* a result record with exactly one variant populated: Success without error,
\* or Failure with an error and empty text
OneVariant(r) ==
    /\ {"success", "text", "metadata"} \subseteq DOMAIN r
    /\ r.success \in BOOLEAN
    /\ r.success => "error" \notin DOMAIN r
    /\ ~r.success => ("error" \in DOMAIN r /\ r.text = <<>>)
    /\ ~("error" \in DOMAIN r /\ r.text # <<>>)

\* C21: every result of an engine's extract_text (the engine available or
\* not) and of extract_text_from_image is a Success without an error field or
\* a Failure with an error and empty text; none has an error and a text.
C21_OneVariant ==
    InRequest =>
        /\ ~PrimaryGives.raised /\ OneVariant(PrimaryGives.value)
        /\ ~FallbackGives.raised /\ OneVariant(FallbackGives.value)
        /\ \A i \in 1..Len(calls) :
            calls[i].op = "extract_text" => (~calls[i].ret.raised /\ OneVariant(calls[i].ret.value))
        /\ Finished => (~result.raised /\ OneVariant(result.value))

\* the primary read nothing and tesseract failed on the same image; the call
\* returned the generic Failure
C21_Witness ==
    /\ pc = "BothFailed"
    /\ Len(calls) = 4
    /\ calls[2].ret.value.success
    /\ calls[2].ret.value.text = <<>>
    /\ ~calls[4].ret.value.success
    /\ calls[4].ret.value.error = "tesseract failed"
    /\ result.value.text = <<>>
    /\ "error" \in DOMAIN result.value

\* the confidences the backend reports for the items it read on the image: one
\* per line for PaddleOCR (in thousandths), one per word row for pytesseract
\* (none when image_to_data fails)
ItemConfidences(self, image) ==
    IF self.cls = "PaddleOCREngine"
    THEN LET lines == SelectSeq(image.paddle.value, LAMBDA line : line # NoLine)
         IN  [i \in 1..Len(lines) |-> lines[i].confidence]
    ELSE IF image.tesseract.image_to_data.raised THEN <<>>
    ELSE SelectSeq(image.tesseract.image_to_data.value.conf, LAMBDA c : c # -1)

\* the fraction c is the mean of the items on the scale 0..100, to the nearest
\* hundredth
IsScaledMean(c, items, scale) ==
    LET n == Len(items)
        diff == c.num * scale * n - 100 * SumSeq(items) * c.den
    IN  /\ 200 * diff <= c.den * scale * n
        /\ 200 * diff >= 0 - c.den * scale * n

\* the confidence of a result of the engine is as the claim has it
ConfidenceAsReported(self, r, image) ==
    IF ~r.success THEN "confidence" \notin DOMAIN r.metadata
    ELSE LET c == r.metadata.confidence
             items == ItemConfidences(self, image)
         IN  /\ c.den > 0
             /\ c.num >= 0
             /\ c.num <= 100 * c.den
             /\ items = <<>> => c.num = 0
             /\ items # <<>> =>
                 IsScaledMean(c, items, IF self.cls = "PaddleOCREngine" THEN 1000 ELSE 100)

\* C22: every Success has metadata.confidence in 0..100: 0 when the backend
\* reports no per-item confidence, otherwise the mean of the per-item
\* confidences on the scale 0..100; no Failure has a confidence.
C22_ConfidenceRange ==
    /\ \A i \in 1..Len(calls) :
        calls[i].op = "extract_text" =>
            ConfidenceAsReported(EngineOf(calls[i]), calls[i].ret.value,
                                 with_backend(file.content.image, backend))
    /\ (Finished /\ ~result.raised /\ ~result.value.success) =>
        "confidence" \notin DOMAIN result.value.metadata

\* C23: after a primary success with empty or white-space text, a fallback
\* that is unavailable or returns a Failure ends the call in BothFailed: the
\* caller gets the generic Failure, not the primary's empty Success, and the
\* client a 500.
C23_EmptyPrimaryNoFallback ==
    (/\ PrimaryEmptySuccess
     /\ Finished
     /\ EngineFails(fallback_engine, FallbackGives)) =>
        /\ pc \in {"BothFailed", "Responded"}
        /\ ~result.raised
        /\ ~result.value.success
        /\ result.value.error = "Both OCR engines failed or are unavailable"
        /\ result.value.text = <<>>
        /\ result # PrimaryGives
        /\ pc = "Responded" =>
            /\ response.status_code = 500
            /\ response.content.detail = "OCR processing failed: " \o result.value.error

\* the primary read a blank, the fallback is unavailable, the client got 500
C23_Witness ==
    /\ pc = "Responded"
    /\ PrimaryEmptySuccess
    /\ PrimaryGives.value.metadata.char_count = 1
    /\ ~is_available(fallback_engine)
    /\ response.status_code = 500

\* C24: an upload that passed the size check is either accepted (it reaches
\* the orchestrator) or answered 400 "Unsupported file type", whatever its
\* file name: absent, without extension or with one; no file name makes the
\* validation end in another error.
C24_ExtensionTwoOutcomes ==
    (InRequest /\ len(file.content) <= max_file_size) =>
        LET accepted == pc # "Responded" \/ Finished
            rejected == /\ pc = "Responded"
                        /\ ~Finished
                        /\ calls = <<>>
                        /\ response.status_code = 400
                        /\ SubSeq(response.content.detail, 1, 21) = "Unsupported file type"
        IN  /\ accepted \/ rejected
            /\ validate_file(file).raised => validate_file(file).exc.type = "HTTPException"

\* C25: a request reads its upload once, then checks the size, then the
\* extension, then calls the orchestrator, and stops at the first check that
\* fails: an upload over the size limit is answered 413 whatever its
\* extension, and the orchestrator is called only after both checks passed.
C25_StepOrder ==
    InRequest =>
        /\ Len(steps) >= 2
        /\ steps = SubSeq(<<"read", "size", "extension", "orchestrator">>, 1, Len(steps))
        /\ len(file.content) > max_file_size =>
            /\ steps = <<"read", "size">>
            /\ pc = "Responded"
            /\ response.status_code = 413
            /\ calls = <<>>
        /\ (len(file.content) <= max_file_size /\ ~AllowedName(file)) =>
            /\ steps = <<"read", "size", "extension">>
            /\ pc = "Responded"
            /\ response.status_code # 413
            /\ calls = <<>>
        /\ (calls # <<>> \/ Finished \/ Len(steps) = 4) =>
            /\ steps = <<"read", "size", "extension", "orchestrator">>
            /\ len(file.content) <= max_file_size
            /\ AllowedName(file)
        /\ (pc = "Responded" /\ response.status_code = 200) =>
            response.content.data.file_size = file.content.size

\* a.zip of max_file_size + 1 bytes is answered 413
C25_Witness ==
    /\ pc = "Responded"
    /\ file.filename = <<"a", ".", "z", "i", "p">>
    /\ len(file.content) = max_file_size + 1
    /\ steps = <<"read", "size">>
    /\ response.status_code = 413

\* the names an engine goes by
EngineNames(self) == {class_name(self), engine_key(self)}

NotAvailableFailure(self) ==
    Return([success |-> FALSE,
            error |-> IF self.cls = "PaddleOCREngine" THEN "PaddleOCR is not available"
                      ELSE "Tesseract is not installed or not in PATH",
            text |-> <<>>,
            metadata |-> <<>>])

\* the engine was constructed while its library failed to initialize
InitFailed(self) ==
    IF self.cls = "PaddleOCREngine" THEN ~backend.paddleocr ELSE ~backend.tesseract

\* C27: an engine constructed while its library failed to initialize exists
\* (the constructor did not raise), reports is_available() = false in every
\* later state, and its extract_text returns the "not available" Failure
\* whatever the image, the library not being run.
C27_FailedInitUnavailable ==
    /\ primary_engine.cls = "PaddleOCREngine"
    /\ fallback_engine.cls = "TesseractEngine"
    /\ \A self \in {primary_engine, fallback_engine} :
        InitFailed(self) =>
            /\ is_available(self) = FALSE
            /\ "ocr" \notin DOMAIN self
            /\ \A i \in 1..Len(calls) :
                (calls[i].op = "extract_text" /\ EngineOf(calls[i]) = self) =>
                    /\ calls[i].ret = NotAvailableFailure(self)
                    /\ calls[i].ret.value.error # BackendRaises(self, with_backend(file.content.image, backend)).exc.message

\* extract_text was called on a tesseract engine constructed without the
\* binary, with an image PIL can open
C27_Witness ==
    /\ pc = "DirectReturned"
    /\ calls[1].engine = "fallback"
    /\ ~backend.tesseract
    /\ ~file.content.image.open.raised
    /\ result.value.error = "Tesseract is not installed or not in PATH"

\* C28: in every Success of either engine, metadata.char_count is the number
\* of characters of the returned text and metadata.word_count the number of
\* its white-space separated words; both are 0 exactly when the text is empty.
C28_CountsOfReturnedText ==
    \A i \in 1..Len(calls) :
        (calls[i].op = "extract_text" /\ ~calls[i].ret.raised /\ calls[i].ret.value.success) =>
            LET r == calls[i].ret.value
            IN  /\ r.metadata.char_count = Len(r.text)
                /\ r.metadata.word_count = split_len(r.text)
                /\ (r.metadata.char_count = 0 /\ r.metadata.word_count = 0) <=> r.text = <<>>

\* in every Success the word count is that of the returned text
WordCountOfReturnedText ==
    \A i \in 1..Len(calls) :
        (calls[i].op = "extract_text" /\ ~calls[i].ret.raised /\ calls[i].ret.value.success) =>
            calls[i].ret.value.metadata.word_count = split_len(calls[i].ret.value.text)

----------------------------------------------------------------------------
(* ConnectorManager: pipeline/connectors/manager.py and
   src/python/connectors/manager.py.  A connector object is identified by its
   index in `instances`; `disconnects` counts the calls of its disconnect(). *)

\* most connector objects created in one run
MaxInstances == 3

\* the names the YAML file can list, in the order it lists them
ConnectorNames == <<"db", "mail">>

ConnectorNameSet == {ConnectorNames[i] : i \in 1..Len(ConnectorNames)}

\* None where a dict is expected
NoneDict == [None |-> TRUE]

ValueError(message) == [type |-> "ValueError", message |-> message]

ConnectionError(message) == [type |-> "ConnectionError", message |-> message]

\* PostgresConnector(config) where __init__(self, name, config) is declared
MissingArgument ==
    [type |-> "TypeError", message |-> "__init__() missing 1 required positional argument: 'config'"]

\* the entries the file can hold under connectors.<name>
ConnectorConfigs ==
    {[type |-> "postgres"], [type |-> "gmail"], [type |-> "mysql"], [type |-> ""], [connection_id |-> "pg"]}

\* what yaml.safe_load can return for a file that holds a mapping
Documents ==
    {[version |-> 1]} \cup
    {[connectors |-> c] :
        c \in UNION {[D -> ConnectorConfigs] : D \in SUBSET ConnectorNameSet}}

\* what opening and parsing the file can give
ConfigFiles ==
    {[state |-> "absent"], [state |-> "unreadable"], [state |-> "empty"]} \cup
    {[state |-> "document", doc |-> d] : d \in Documents}

ManagerModules == {"pipeline", "python"}

\* ConnectorManager._load_config / ConfigManager.load_config
_load_config(config, f) ==
    IF config # NoneDict THEN [ret |-> Return(config), config |-> config]
    ELSE IF f.state = "document" THEN [ret |-> Return(f.doc), config |-> f.doc]
    \* yaml.safe_load(file) or {}
    ELSE IF f.state = "empty" THEN [ret |-> Return(<<>>), config |-> <<>>]
    \* except FileNotFoundError
    ELSE IF f.state = "absent" THEN [ret |-> Return(<<>>), config |-> <<>>]
    ELSE [ret |-> Raise(ValueError(<<"Failed to load config file">>)), config |-> config]

\* ConnectorFactory._connectors after the registrations of registry.py
ConnectorFactory_connectors ==
    [postgres |-> "PostgresConnector", postgresql |-> "PostgresConnector",
     elasticsearch |-> "ElasticsearchConnector", es |-> "ElasticsearchConnector",
     gmail |-> "GmailConnector"]

\* connector_class(config): the constructor of the connector class
new_connector(module, cls, config) ==
    IF module = "pipeline" /\ cls = "PostgresConnector" THEN Raise(MissingArgument)
    ELSE Return([cls |-> cls, config |-> config, connected |-> FALSE, disconnects |-> 0])

\* ConnectorFactory.create
ConnectorFactory_create(module, connector_type, config) ==
    IF connector_type \notin DOMAIN ConnectorFactory_connectors
    THEN Raise(ValueError(<<"Unknown connector type: ", connector_type>>))
    ELSE new_connector(module, ConnectorFactory_connectors[connector_type], config)

\* ConnectorManager._create_connector
_create_connector(module, config, f, connector_name) ==
    LET loaded == _load_config(config, f)
    IN  IF loaded.ret.raised THEN [ret |-> loaded.ret, config |-> loaded.config]
        ELSE LET connectors == IF "connectors" \in DOMAIN loaded.ret.value
                               THEN loaded.ret.value.connectors ELSE <<>>
             IN  [config |-> loaded.config,
                  ret |->
                    IF connector_name \notin DOMAIN connectors
                    THEN Raise(ValueError(<<"Connector '", connector_name, "' not found in config">>))
                    ELSE LET connector_config == connectors[connector_name]
                         IN  \* connector_type = connector_config.get('type'); if not connector_type
                             IF "type" \notin DOMAIN connector_config \/ connector_config.type = ""
                             THEN Raise(ValueError(<<"Connector '", connector_name, "' missing 'type' field">>))
                             ELSE ConnectorFactory_create(module, connector_config.type, connector_config)]

\* faulty variant: a new connector is created on every call
get_connector_always_creates(module, cache, config, f, insts, connector_name) ==
    LET created == _create_connector(module, config, f, connector_name)
    IN  IF created.ret.raised
        THEN [ret |-> created.ret, connectors |-> cache, config |-> created.config, instances |-> insts]
        ELSE [ret |-> Return(Len(insts) + 1),
              connectors |-> [n \in DOMAIN cache \cup {connector_name} |->
                                 IF n = connector_name THEN Len(insts) + 1 ELSE cache[n]],
              config |-> created.config,
              instances |-> Append(insts, created.ret.value)]

\* ConnectorManager.get_connector
get_connector(module, cache, config, f, insts, connector_name) ==
    IF connector_name \in DOMAIN cache
    THEN [ret |-> Return(cache[connector_name]), connectors |-> cache, config |-> config, instances |-> insts]
    ELSE LET created == _create_connector(module, config, f, connector_name)
         IN  IF created.ret.raised
             THEN [ret |-> created.ret, connectors |-> cache, config |-> created.config, instances |-> insts]
             ELSE [ret |-> Return(Len(insts) + 1),
                   connectors |-> [n \in DOMAIN cache \cup {connector_name} |->
                                      IF n = connector_name THEN Len(insts) + 1 ELSE cache[n]],
                   config |-> created.config,
                   instances |-> Append(insts, created.ret.value)]

\* ConnectorManager.list_connectors
list_connectors(config, f) ==
    LET loaded == _load_config(config, f)
    IN  IF loaded.ret.raised THEN [ret |-> loaded.ret, config |-> loaded.config]
        ELSE [config |-> loaded.config,
              ret |-> Return(IF "connectors" \in DOMAIN loaded.ret.value
                             THEN SelectSeq(ConnectorNames, LAMBDA n : n \in DOMAIN loaded.ret.value.connectors)
                             ELSE <<>>)]

\* BaseConnector.is_connected: _connection is not None (GmailConnector never sets it)
is_connected(inst) == inst.cls = "PostgresConnector" /\ inst.connected

\* connector.connect()
connector_connect(inst, raises) ==
    IF raises THEN [ret |-> Raise(ConnectionError(<<"Failed to connect">>)), self |-> inst]
    ELSE [ret |-> Return(None), self |-> [inst EXCEPT !.connected = TRUE]]

\* connector.test_connection(): False when not connected, never raises
connector_test_connection(inst, works) == inst.connected /\ works

\* connector.disconnect(): only closing a live PostgreSQL connection can raise
connector_disconnect(inst, raises) ==
    IF inst.cls = "PostgresConnector" /\ inst.connected /\ raises
    THEN [ret |-> Raise(ConnectionError(<<"Error disconnecting from PostgreSQL">>)),
          self |-> [inst EXCEPT !.disconnects = @ + 1]]
    ELSE [ret |-> Return(None),
          self |-> [inst EXCEPT !.connected = FALSE, !.disconnects = @ + 1]]

\* if not connector.is_connected(): connector.connect()   (pipeline/connectors only)
connect_for_test(module, inst, raises) ==
    IF module = "pipeline" /\ ~is_connected(inst) THEN connector_connect(inst, raises)
    ELSE [ret |-> Return(None), self |-> inst]

\* results[name] = connector.test_connection(), or False after an exception
tested(st, name, id, connected, works) ==
    [st EXCEPT !.instances[id] = connected.self,
               !.results = Append(@, <<name, IF connected.ret.raised THEN FALSE
                                             ELSE connector_test_connection(connected.self, works)>>)]

\* one round of the loop of test_all_connections
test_one(module, f, name, env, st) ==
    LET got == get_connector(module, st.connectors, st.config, f, st.instances, name)
        after == [connectors |-> got.connectors, config |-> got.config,
                  instances |-> got.instances, results |-> st.results]
    IN  IF got.ret.raised
        \* except Exception: results[name] = False
        THEN [after EXCEPT !.results = Append(@, <<name, FALSE>>)]
        ELSE tested(after, name, got.ret.value,
                    connect_for_test(module, got.instances[got.ret.value], name \in env.connect_raises),
                    name \in env.test_works)

\* the loop of test_all_connections over the names still to test
RECURSIVE test_each(_, _, _, _, _)
test_each(module, f, names, env, st) ==
    IF names = <<>> THEN st
    ELSE test_each(module, f, Tail(names), env, test_one(module, f, Head(names), env, st))

\* ConnectorManager.test_all_connections
test_all_connections(module, cache, config, f, insts, env) ==
    LET listed == list_connectors(config, f)
    IN  IF listed.ret.raised
        THEN [ret |-> listed.ret, connectors |-> cache, config |-> listed.config, instances |-> insts]
        ELSE LET st == test_each(module, f, listed.ret.value, env,
                                 [connectors |-> cache, config |-> listed.config,
                                  instances |-> insts, results |-> <<>>])
             IN  [ret |-> Return(st.results), connectors |-> st.connectors, config |-> st.config,
                  instances |-> st.instances]

RECURSIVE SortedSeq(_)
SortedSeq(S) ==
    IF S = {} THEN <<>>
    ELSE LET least == CHOOSE a \in S : \A b \in S : a <= b
         IN  <<least>> \o SortedSeq(S \ {least})

\* self._connectors.values(): the cached connectors in the order they were inserted
values(cache) == SortedSeq({cache[n] : n \in DOMAIN cache})

\* the loop of disconnect_all over the connectors still to disconnect
RECURSIVE disconnect_each(_, _, _)
disconnect_each(ids, insts, raising) ==
    IF ids = <<>> THEN insts
    ELSE \* except Exception: pass
         disconnect_each(Tail(ids),
                         [insts EXCEPT ![Head(ids)] = connector_disconnect(@, Head(ids) \in raising).self],
                         raising)

\* ConnectorManager.disconnect_all
disconnect_all(cache, insts, raising) ==
    [ret |-> Return(None),
     connectors |-> <<>>,
     instances |-> disconnect_each(values(cache), insts, raising)]

\* no OCR service is running
NoService ==
    /\ primary_engine = Unset
    /\ fallback_engine = Unset
    /\ pc = "None"
    /\ file = Unset
    /\ language = "en"
    /\ calls = <<>>
    /\ result = Unset
    /\ response = Unset
    /\ backend = Unset
    /\ status = <<>>
    /\ requests = <<>>
    /\ steps = <<>>

\* ConnectorManager.__init__
InitManager ==
    /\ NoService
    /\ NoWorkflow
    /\ manager_module \in ManagerModules
    /\ config_file \in ConfigFiles
    /\ _config = NoneDict
    /\ _connectors = <<>>
    /\ instances = <<>>
    /\ manager_call = Unset

GetConnector ==
    \E name \in ConnectorNameSet :
        LET r == get_connector(manager_module, _connectors, _config, config_file, instances, name)
        IN  /\ Len(r.instances) <= MaxInstances
            /\ _connectors' = r.connectors
            /\ _config' = r.config
            /\ instances' = r.instances
            /\ manager_call' = [op |-> "get_connector", name |-> name, ret |-> r.ret]
            /\ UNCHANGED <<ocr_vars, workflow_vars, manager_module, config_file>>

TestAllConnections ==
    \E connect_raises \in SUBSET ConnectorNameSet, test_works \in SUBSET ConnectorNameSet :
        LET env == [connect_raises |-> connect_raises, test_works |-> test_works]
            r == test_all_connections(manager_module, _connectors, _config, config_file, instances, env)
        IN  /\ Len(r.instances) <= MaxInstances
            /\ _connectors' = r.connectors
            /\ _config' = r.config
            /\ instances' = r.instances
            /\ manager_call' = [op |-> "test_all_connections", ret |-> r.ret]
            /\ UNCHANGED <<ocr_vars, workflow_vars, manager_module, config_file>>

\* the caller connects a connector it got from the manager
ConnectorConnect ==
    \E name \in DOMAIN _connectors, raises \in BOOLEAN :
        LET r == connector_connect(instances[_connectors[name]], raises)
        IN  /\ instances' = [instances EXCEPT ![_connectors[name]] = r.self]
            /\ manager_call' = [op |-> "connect", name |-> name, ret |-> r.ret]
            /\ UNCHANGED <<ocr_vars, workflow_vars, manager_module, config_file, _config, _connectors>>

DisconnectAll ==
    \E raising \in SUBSET {_connectors[n] : n \in DOMAIN _connectors} :
        LET r == disconnect_all(_connectors, instances, raising)
        IN  /\ _connectors' = r.connectors
            /\ instances' = r.instances
            /\ manager_call' = [op |-> "disconnect_all", ret |-> r.ret, raising |-> raising,
                                disconnected |-> {_connectors[n] : n \in DOMAIN _connectors}]
            /\ UNCHANGED <<ocr_vars, workflow_vars, manager_module, config_file, _config>>

NextManager == GetConnector \/ TestAllConnections \/ ConnectorConnect \/ DisconnectAll

SpecManager == InitManager /\ [][NextManager]_vars

\* every cached name maps to a connector object that exists
CacheWellFormed ==
    \A n \in DOMAIN _connectors : _connectors[n] \in 1..Len(instances)

\* the connector objects held in the cache
Cached == {_connectors[n] : n \in DOMAIN _connectors}

\* C29: on a ConnectorManager, whatever calls came before: a name keeps its
\* connector instance until the next disconnect_all and get_connector returns
\* that instance; a get_connector that raises leaves the cache as it was;
\* disconnect_all calls disconnect exactly once on every cached connector
\* (and on no other) even when some of them raise, returns without raising
\* and leaves the cache empty.
C29_CacheAndDisconnectAll ==
    [][ LET call == manager_call'
        IN  /\ call.op # "disconnect_all" =>
                \A n \in DOMAIN _connectors :
                    n \in DOMAIN _connectors' /\ _connectors'[n] = _connectors[n]
            /\ call.op = "get_connector" =>
                IF call.ret.raised
                THEN /\ _connectors' = _connectors
                     /\ instances' = instances
                ELSE /\ call.name \in DOMAIN _connectors'
                     /\ call.ret.value = _connectors'[call.name]
                     /\ call.name \in DOMAIN _connectors =>
                            call.ret.value = _connectors[call.name] /\ instances' = instances
                     /\ call.name \notin DOMAIN _connectors => call.ret.value \notin Cached
            /\ call.op = "disconnect_all" =>
                /\ call.ret = Return(None)
                /\ _connectors' = <<>>
                /\ Len(instances') = Len(instances)
                /\ \A i \in 1..Len(instances) :
                    instances'[i].disconnects =
                        instances[i].disconnects + (IF i \in Cached THEN 1 ELSE 0)
      ]_vars

\* disconnect_all has run over two cached connectors, the first of which raised
\* in disconnect() and is still connected, and the cache is empty
C29_Witness ==
    /\ manager_call # Unset
    /\ manager_call.op = "disconnect_all"
    /\ _connectors = <<>>
    /\ \E i, j \in 1..Len(instances) :
        /\ i < j
        /\ {i, j} \subseteq manager_call.disconnected
        /\ i \in manager_call.raising
        /\ instances[i].cls = "PostgresConnector" /\ instances[i].connected
        /\ instances[i].disconnects = 1
        /\ instances[j].disconnects = 1

----------------------------------------------------------------------------
(* Workflow.chunk: src/python/workflow/base.py.  chunk is a generator; each
   step below is one next() on it, as the for loop of Workflow.__call__ makes,
   and runs the generator up to its next yield or to its end. *)

\* longest input of a workflow
MaxElements == 4
\* largest batch size of a workflow
MaxBatch == 3

\* the elements a workflow is given
Items == {"a", "b"}

\* a list (has __len__ and __getitem__) or a generator (has neither)
ElementKinds == {"list", "iterator"}

Inputs == [kind : ElementKinds, items : SeqsUpTo(Items, MaxElements)]

StopIteration == [type |-> "StopIteration", message |-> ""]

\* hasattr(elements, "__len__") and hasattr(elements, "__getitem__")
indexable(xs) == xs.kind = "list"

\* s[start : stop] for 0 <= start <= stop
slice(s, start, stop) ==
    SubSeq(s, start + 1, IF stop < Len(s) THEN stop ELSE Len(s))

\* the frame of a generator that has not been started
chunk(self, xs) ==
    IF indexable(xs) THEN [branch |-> "range", x |-> 0, done |-> FALSE]
    ELSE [branch |-> "for", consumed |-> 0, done |-> FALSE]

\* next() in the first branch: for x in range(0, len(elements), self.batch)
chunk_next_indexable(self, xs, fr) ==
    IF fr.x < Len(xs.items)
    THEN [ret |-> Return(slice(xs.items, fr.x, fr.x + self.batch)),
          frame |-> [fr EXCEPT !.x = @ + self.batch]]
    ELSE [ret |-> Raise(StopIteration), frame |-> [fr EXCEPT !.done = TRUE]]

\* the for loop of the second branch from the iterator's position `consumed`
\* with the local list `batch`, up to the next yield or the end
RECURSIVE chunk_collect(_, _, _, _)
chunk_collect(self, xs, consumed, batch) ==
    IF consumed = Len(xs.items)
    THEN \* if batch: yield batch
         IF batch # <<>>
         THEN [ret |-> Return(batch), frame |-> [branch |-> "rest", consumed |-> consumed, done |-> FALSE]]
         ELSE [ret |-> Raise(StopIteration), frame |-> [branch |-> "rest", consumed |-> consumed, done |-> TRUE]]
    ELSE LET appended == Append(batch, xs.items[consumed + 1])
         IN  IF Len(appended) = self.batch
             THEN [ret |-> Return(appended),
                   frame |-> [branch |-> "for", consumed |-> consumed + 1, done |-> FALSE]]
             ELSE chunk_collect(self, xs, consumed + 1, appended)

\* faulty variant: the elements left over after the loop are not yielded
chunk_next_iterable_drops_rest(self, xs, fr) ==
    IF fr.branch = "rest"
    THEN [ret |-> Raise(StopIteration), frame |-> [fr EXCEPT !.done = TRUE]]
    ELSE LET r == chunk_collect(self, xs, fr.consumed, <<>>)
         IN  IF r.frame.branch = "rest"
             THEN [ret |-> Raise(StopIteration), frame |-> [r.frame EXCEPT !.done = TRUE]]
             ELSE r

\* next() in the second branch; after a yield inside the loop batch is []
chunk_next_iterable(self, xs, fr) ==
    IF fr.branch = "rest"
    THEN [ret |-> Raise(StopIteration), frame |-> [fr EXCEPT !.done = TRUE]]
    ELSE chunk_collect(self, xs, fr.consumed, <<>>)

\* Workflow(tasks, batch=n) and the call of chunk(elements)
InitWorkflow ==
    /\ NoService
    /\ NoManager
    /\ workflow \in [batch : 1..MaxBatch]
    /\ elements \in Inputs
    /\ frame = chunk(workflow, elements)
    /\ yielded = <<>>

NextIndexable ==
    /\ ~frame.done
    /\ frame.branch = "range"
    /\ LET r == chunk_next_indexable(workflow, elements, frame)
       IN  /\ frame' = r.frame
           /\ yielded' = IF r.ret.raised THEN yielded ELSE Append(yielded, r.ret.value)
    /\ UNCHANGED <<ocr_vars, manager_vars, workflow, elements>>

NextIterable ==
    /\ ~frame.done
    /\ frame.branch \in {"for", "rest"}
    /\ LET r == chunk_next_iterable(workflow, elements, frame)
       IN  /\ frame' = r.frame
           /\ yielded' = IF r.ret.raised THEN yielded ELSE Append(yielded, r.ret.value)
    /\ UNCHANGED <<ocr_vars, manager_vars, workflow, elements>>

NextWorkflow == NextIndexable \/ NextIterable

SpecWorkflow == InitWorkflow /\ [][NextWorkflow]_vars

RECURSIVE Concat(_)
Concat(batches) == IF batches = <<>> THEN <<>> ELSE Head(batches) \o Concat(Tail(batches))

\* C30: for every batch size >= 1 and every input, list or one-pass iterator,
\* the batches yielded so far are non-empty, hold at most batch elements and,
\* concatenated in order, are the leading elements of the input; every batch
\* but the last holds exactly batch elements; once the generator has ended the
\* concatenation is the whole input, and an empty input has yielded no batch.
C30_ChunkPartitionsInput ==
    /\ workflow.batch >= 1
    /\ \A i \in 1..Len(yielded) :
        /\ yielded[i] # <<>>
        /\ Len(yielded[i]) <= workflow.batch
        /\ i < Len(yielded) => Len(yielded[i]) = workflow.batch
    /\ Len(Concat(yielded)) <= Len(elements.items)
    /\ Concat(yielded) = SubSeq(elements.items, 1, Len(Concat(yielded)))
    /\ frame.done => Concat(yielded) = elements.items
    /\ elements.items = <<>> => yielded = <<>>
    \* a batch shorter than batch is the last one of the run
    /\ \A i \in 1..Len(yielded) :
        Len(yielded[i]) < workflow.batch => Len(Concat(yielded)) = Len(elements.items)

\* a one-pass iterator of four elements has been chunked to the end by threes:
\* a full batch, then the single element left over
C30_Witness ==
    /\ frame.done
    /\ elements.kind = "iterator"
    /\ workflow.batch = 3
    /\ Len(elements.items) = 4
    /\ Len(yielded) = 2
    /\ Len(yielded[2]) = 1

\* the same for a list
ListChunkedToTheEnd ==
    /\ frame.done
    /\ elements.kind = "list"
    /\ workflow.batch = 3
    /\ Len(elements.items) = 4
    /\ Len(yielded) = 2

====
